---------------------------- MODULE Spec2Model ----------------------------
(***************************************************************************)
(* A model of the simulation core of Tomenet3D (src/src/game/GameData.js,  *)
(* class RoguelikeGame, and src/src/game/DungeonGenerator.js): the energy  *)
(* scheduler, visibility, pathfinding, monster AI, combat and items.       *)
(*                                                                         *)
(* The whole RoguelikeGame object is one record, game.  A handler is an    *)
(* operator from a game record to the SET of game records it can return,   *)
(* one per outcome of its Math.random() draws.  processTurnLoop is stepped *)
(* from one round with a monster action to the next (variable ctl), so     *)
(* that the states inside the drain loop can be observed; while it runs no *)
(* other operation is enabled, as in the single-threaded program.          *)
(***************************************************************************)
EXTENDS Integers, Sequences, FiniteSets, TLC

VARIABLES game, ctl, turns

vars == <<game, ctl, turns>>

-----------------------------------------------------------------------------
(* Bounds of the model *)

\* accepted player turns (drain loops started from a user call) per behaviour
MaxTurns == 2
\* calls of generateLevel after construction per behaviour
MaxGens == 1

-----------------------------------------------------------------------------
(* Configuration and program constants *)

\* config.width, config.height of the session
Width == 9
Height == 5

ActionCost == 100
SafetyCap == 1000
SightRange == 7
MaxLevel == 15
PlayerSpeed == 10
AlarmRadius == 15
ChaseRadius == 6

Cells == (0 .. Width - 1) \X (0 .. Height - 1)
NoCell == <<-1, -1>>

Tiles == {"Wall", "Floor", "DoorClosed", "DoorOpen", "SecretWall",
          "TrapHidden", "TrapRevealed", "Portal"}

InBounds(x, y) == x >= 0 /\ x < Width /\ y >= 0 /\ y < Height

Abs(n) == IF n < 0 THEN -n ELSE n
Sign(n) == IF n > 0 THEN 1 ELSE IF n < 0 THEN -1 ELSE 0
Min(a, b) == IF a < b THEN a ELSE b
Max(a, b) == IF a > b THEN a ELSE b

Manhattan(x1, y1, x2, y2) == Abs(x1 - x2) + Abs(y1 - y2)

\* the order of the dirs arrays of _bfsPath and _findNearestUnexplored
Dirs8 == << <<0, -1>>, <<0, 1>>, <<-1, 0>>, <<1, 0>>,
            <<-1, -1>>, <<1, -1>>, <<-1, 1>>, <<1, 1>> >>

\* the order used by _shouldInterruptAutoRun, _monsterSummon, _monsterWander
Dirs4 == << <<0, 1>>, <<0, -1>>, <<1, 0>>, <<-1, 0>> >>

Range(s) == {s[i] : i \in 1 .. Len(s)}

Bind(S, F(_)) == UNION {F(s) : s \in S}

-----------------------------------------------------------------------------
(* Tiles and walkability *)

\* _isWalkable(x, y) with the open door left out of the list: the fault C9
\* excludes
IsWalkableButOpenDoor(map, x, y) ==
  /\ InBounds(x, y)
  /\ map[<<x, y>>] \in {"Floor", "TrapHidden", "TrapRevealed", "Portal"}

\* _isWalkable(x, y)
IsWalkable(map, x, y) ==
  /\ InBounds(x, y)
  /\ map[<<x, y>>] \in {"Floor", "DoorOpen", "TrapHidden", "TrapRevealed", "Portal"}

\* the tiles that end a ray of updateVisibility (the tile itself is still lit)
Opaque(tile) == tile \in {"Wall", "SecretWall", "DoorClosed"}

-----------------------------------------------------------------------------
(* Visibility.  updateVisibility casts 240 rays, i = 0 .. 239, at angle     *)
(* 2*pi*i/240, and samples each at step = 1 .. sightRange (7) at the cell   *)
(* (Math.round(p.x + cos*step), Math.round(p.y + sin*step)).  RaysFrom(p)   *)
(* is that list of sampled cells for a player at p, computed with IEEE      *)
(* doubles and Math.round as the code does, for every interior position of *)
(* a grid of up to 10 x 6; a ray is cut where it leaves that grid, repeated *)
(* consecutive samples are written once, and a ray that is a prefix of      *)
(* another is left out (it lights a subset of the cells of the longer one).*)

RaysFrom(p) ==
  IF p = <<1,1>> THEN {
      <<<<0,0>>>>, <<<<0,1>>>>, <<<<0,2>>,<<0,3>>>>, <<<<1,0>>>>,
      <<<<1,2>>,<<0,3>>,<<0,4>>,<<0,5>>>>, <<<<1,2>>,<<1,3>>,<<0,4>>,<<0,5>>>>,
      <<<<1,2>>,<<1,3>>,<<1,4>>,<<0,5>>>>, <<<<1,2>>,<<1,3>>,<<1,4>>,<<1,5>>>>,
      <<<<1,2>>,<<1,3>>,<<1,4>>,<<2,5>>>>, <<<<1,2>>,<<1,3>>,<<2,4>>,<<2,5>>>>,
      <<<<1,2>>,<<2,3>>,<<2,4>>,<<2,5>>>>, <<<<1,2>>,<<2,3>>,<<2,4>>,<<3,5>>>>, <<<<2,0>>,<<3,0>>>>,
      <<<<2,1>>,<<3,0>>,<<4,0>>,<<5,0>>,<<6,0>>>>,
      <<<<2,1>>,<<3,1>>,<<4,0>>,<<5,0>>,<<6,0>>,<<7,0>>,<<8,0>>>>,
      <<<<2,1>>,<<3,1>>,<<4,1>>,<<5,0>>,<<6,0>>,<<7,0>>,<<8,0>>>>,
      <<<<2,1>>,<<3,1>>,<<4,1>>,<<5,1>>,<<6,0>>,<<7,0>>,<<8,0>>>>,
      <<<<2,1>>,<<3,1>>,<<4,1>>,<<5,1>>,<<6,1>>,<<7,1>>,<<8,0>>>>,
      <<<<2,1>>,<<3,1>>,<<4,1>>,<<5,1>>,<<6,1>>,<<7,1>>,<<8,1>>>>,
      <<<<2,1>>,<<3,1>>,<<4,1>>,<<5,1>>,<<6,1>>,<<7,1>>,<<8,2>>>>,
      <<<<2,1>>,<<3,1>>,<<4,1>>,<<5,1>>,<<6,2>>,<<7,2>>,<<8,2>>>>,
      <<<<2,1>>,<<3,1>>,<<4,1>>,<<5,2>>,<<6,2>>,<<7,2>>,<<8,2>>>>,
      <<<<2,1>>,<<3,1>>,<<4,2>>,<<5,2>>,<<6,2>>,<<7,2>>,<<8,2>>>>,
      <<<<2,1>>,<<3,1>>,<<4,2>>,<<5,2>>,<<6,2>>,<<7,2>>,<<8,3>>>>,
      <<<<2,1>>,<<3,2>>,<<4,2>>,<<5,2>>,<<6,2>>,<<7,3>>,<<8,3>>>>,
      <<<<2,1>>,<<3,2>>,<<4,2>>,<<5,2>>,<<6,3>>,<<7,3>>,<<8,3>>>>,
      <<<<2,1>>,<<3,2>>,<<4,2>>,<<5,2>>,<<6,3>>,<<7,3>>,<<8,4>>>>,
      <<<<2,1>>,<<3,2>>,<<4,2>>,<<5,3>>,<<6,3>>,<<6,4>>,<<7,4>>>>,
      <<<<2,1>>,<<3,2>>,<<4,2>>,<<5,3>>,<<6,3>>,<<7,3>>,<<7,4>>>>,
      <<<<2,1>>,<<3,2>>,<<4,2>>,<<5,3>>,<<6,3>>,<<7,4>>>>,
      <<<<2,1>>,<<3,2>>,<<4,2>>,<<5,3>>,<<6,4>>,<<7,4>>>>,
      <<<<2,2>>,<<2,3>>,<<3,3>>,<<3,4>>,<<4,5>>>>, <<<<2,2>>,<<2,3>>,<<3,3>>,<<4,4>>,<<4,5>>>>,
      <<<<2,2>>,<<2,3>>,<<3,4>>,<<4,5>>>>,
      <<<<2,2>>,<<3,2>>,<<3,3>>,<<4,3>>,<<5,4>>,<<6,4>>,<<7,5>>>>,
      <<<<2,2>>,<<3,2>>,<<3,3>>,<<4,3>>,<<5,4>>,<<6,5>>,<<7,5>>>>,
      <<<<2,2>>,<<3,2>>,<<3,3>>,<<4,4>>,<<5,4>>,<<6,5>>>>,
      <<<<2,2>>,<<3,2>>,<<4,3>>,<<5,3>>,<<6,4>>,<<7,5>>>>,
      <<<<2,2>>,<<3,2>>,<<4,3>>,<<5,4>>,<<6,4>>,<<7,5>>>>,
      <<<<2,2>>,<<3,3>>,<<4,4>>,<<4,5>>,<<5,5>>>>, <<<<2,2>>,<<3,3>>,<<4,4>>,<<5,4>>,<<5,5>>>>,
      <<<<2,2>>,<<3,3>>,<<4,4>>,<<5,5>>>> } ELSE
  IF p = <<2,1>> THEN {
      <<<<1,0>>,<<0,0>>>>, <<<<1,1>>,<<0,0>>>>, <<<<1,1>>,<<0,1>>>>, <<<<1,1>>,<<0,2>>>>,
      <<<<1,2>>,<<0,2>>,<<0,3>>>>, <<<<1,2>>,<<0,3>>>>, <<<<1,2>>,<<1,3>>,<<0,3>>,<<0,4>>>>,
      <<<<1,2>>,<<1,3>>,<<0,4>>>>, <<<<2,0>>>>, <<<<2,2>>,<<1,3>>,<<1,4>>,<<0,4>>,<<0,5>>>>,
      <<<<2,2>>,<<1,3>>,<<1,4>>,<<0,5>>>>, <<<<2,2>>,<<1,3>>,<<1,4>>,<<1,5>>>>,
      <<<<2,2>>,<<2,3>>,<<1,4>>,<<1,5>>>>, <<<<2,2>>,<<2,3>>,<<2,4>>,<<1,5>>>>,
      <<<<2,2>>,<<2,3>>,<<2,4>>,<<2,5>>>>, <<<<2,2>>,<<2,3>>,<<2,4>>,<<3,5>>>>,
      <<<<2,2>>,<<2,3>>,<<3,4>>,<<3,5>>>>, <<<<2,2>>,<<3,3>>,<<3,4>>,<<3,5>>>>,
      <<<<2,2>>,<<3,3>>,<<3,4>>,<<4,5>>>>, <<<<3,0>>,<<4,0>>>>,
      <<<<3,1>>,<<4,0>>,<<5,0>>,<<6,0>>,<<7,0>>>>,
      <<<<3,1>>,<<4,1>>,<<5,0>>,<<6,0>>,<<7,0>>,<<8,0>>,<<9,0>>>>,
      <<<<3,1>>,<<4,1>>,<<5,1>>,<<6,0>>,<<7,0>>,<<8,0>>,<<9,0>>>>,
      <<<<3,1>>,<<4,1>>,<<5,1>>,<<6,1>>,<<7,0>>,<<8,0>>,<<9,0>>>>,
      <<<<3,1>>,<<4,1>>,<<5,1>>,<<6,1>>,<<7,1>>,<<8,1>>,<<9,0>>>>,
      <<<<3,1>>,<<4,1>>,<<5,1>>,<<6,1>>,<<7,1>>,<<8,1>>,<<9,1>>>>,
      <<<<3,1>>,<<4,1>>,<<5,1>>,<<6,1>>,<<7,1>>,<<8,1>>,<<9,2>>>>,
      <<<<3,1>>,<<4,1>>,<<5,1>>,<<6,1>>,<<7,2>>,<<8,2>>,<<9,2>>>>,
      <<<<3,1>>,<<4,1>>,<<5,1>>,<<6,2>>,<<7,2>>,<<8,2>>,<<9,2>>>>,
      <<<<3,1>>,<<4,1>>,<<5,2>>,<<6,2>>,<<7,2>>,<<8,2>>,<<9,2>>>>,
      <<<<3,1>>,<<4,1>>,<<5,2>>,<<6,2>>,<<7,2>>,<<8,2>>,<<9,3>>>>,
      <<<<3,1>>,<<4,2>>,<<5,2>>,<<6,2>>,<<7,2>>,<<8,3>>,<<9,3>>>>,
      <<<<3,1>>,<<4,2>>,<<5,2>>,<<6,2>>,<<7,3>>,<<8,3>>,<<9,3>>>>,
      <<<<3,1>>,<<4,2>>,<<5,2>>,<<6,2>>,<<7,3>>,<<8,3>>,<<9,4>>>>,
      <<<<3,1>>,<<4,2>>,<<5,2>>,<<6,3>>,<<7,3>>,<<7,4>>,<<8,4>>>>,
      <<<<3,1>>,<<4,2>>,<<5,2>>,<<6,3>>,<<7,3>>,<<8,3>>,<<8,4>>>>,
      <<<<3,1>>,<<4,2>>,<<5,2>>,<<6,3>>,<<7,3>>,<<8,4>>>>,
      <<<<3,1>>,<<4,2>>,<<5,2>>,<<6,3>>,<<7,4>>,<<8,4>>>>,
      <<<<3,2>>,<<3,3>>,<<4,3>>,<<4,4>>,<<5,5>>>>, <<<<3,2>>,<<3,3>>,<<4,3>>,<<5,4>>,<<5,5>>>>,
      <<<<3,2>>,<<3,3>>,<<4,4>>,<<5,5>>>>,
      <<<<3,2>>,<<4,2>>,<<4,3>>,<<5,3>>,<<6,4>>,<<7,4>>,<<8,5>>>>,
      <<<<3,2>>,<<4,2>>,<<4,3>>,<<5,3>>,<<6,4>>,<<7,5>>,<<8,5>>>>,
      <<<<3,2>>,<<4,2>>,<<4,3>>,<<5,4>>,<<6,4>>,<<7,5>>>>,
      <<<<3,2>>,<<4,2>>,<<5,3>>,<<6,3>>,<<7,4>>,<<8,5>>>>,
      <<<<3,2>>,<<4,2>>,<<5,3>>,<<6,4>>,<<7,4>>,<<8,5>>>>,
      <<<<3,2>>,<<4,3>>,<<5,4>>,<<5,5>>,<<6,5>>>>, <<<<3,2>>,<<4,3>>,<<5,4>>,<<6,4>>,<<6,5>>>>,
      <<<<3,2>>,<<4,3>>,<<5,4>>,<<6,5>>>> } ELSE
  IF p = <<3,1>> THEN {
      <<<<2,0>>,<<1,0>>>>, <<<<2,1>>,<<1,0>>,<<0,0>>>>, <<<<2,1>>,<<1,1>>,<<0,0>>>>,
      <<<<2,1>>,<<1,1>>,<<0,1>>>>, <<<<2,1>>,<<1,1>>,<<0,2>>>>, <<<<2,1>>,<<1,2>>,<<0,2>>>>,
      <<<<2,2>>,<<1,2>>,<<0,3>>>>, <<<<2,2>>,<<1,2>>,<<1,3>>,<<0,3>>>>,
      <<<<2,2>>,<<1,2>>,<<1,3>>,<<0,4>>>>, <<<<2,2>>,<<1,3>>,<<0,4>>,<<0,5>>>>,
      <<<<2,2>>,<<2,3>>,<<1,3>>,<<0,4>>,<<0,5>>>>, <<<<2,2>>,<<2,3>>,<<1,3>>,<<1,4>>,<<0,5>>>>,
      <<<<2,2>>,<<2,3>>,<<1,4>>,<<0,5>>>>, <<<<3,0>>>>, <<<<3,2>>,<<2,3>>,<<2,4>>,<<1,4>>,<<1,5>>>>,
      <<<<3,2>>,<<2,3>>,<<2,4>>,<<1,5>>>>, <<<<3,2>>,<<2,3>>,<<2,4>>,<<2,5>>>>,
      <<<<3,2>>,<<3,3>>,<<2,4>>,<<2,5>>>>, <<<<3,2>>,<<3,3>>,<<3,4>>,<<2,5>>>>,
      <<<<3,2>>,<<3,3>>,<<3,4>>,<<3,5>>>>, <<<<3,2>>,<<3,3>>,<<3,4>>,<<4,5>>>>,
      <<<<3,2>>,<<3,3>>,<<4,4>>,<<4,5>>>>, <<<<3,2>>,<<4,3>>,<<4,4>>,<<4,5>>>>,
      <<<<3,2>>,<<4,3>>,<<4,4>>,<<5,5>>>>, <<<<4,0>>,<<5,0>>>>,
      <<<<4,1>>,<<5,0>>,<<6,0>>,<<7,0>>,<<8,0>>>>,
      <<<<4,1>>,<<5,1>>,<<6,0>>,<<7,0>>,<<8,0>>,<<9,0>>>>,
      <<<<4,1>>,<<5,1>>,<<6,1>>,<<7,0>>,<<8,0>>,<<9,0>>>>,
      <<<<4,1>>,<<5,1>>,<<6,1>>,<<7,1>>,<<8,0>>,<<9,0>>>>,
      <<<<4,1>>,<<5,1>>,<<6,1>>,<<7,1>>,<<8,1>>,<<9,1>>>>,
      <<<<4,1>>,<<5,1>>,<<6,1>>,<<7,1>>,<<8,2>>,<<9,2>>>>,
      <<<<4,1>>,<<5,1>>,<<6,1>>,<<7,2>>,<<8,2>>,<<9,2>>>>,
      <<<<4,1>>,<<5,1>>,<<6,2>>,<<7,2>>,<<8,2>>,<<9,2>>>>,
      <<<<4,1>>,<<5,2>>,<<6,2>>,<<7,2>>,<<8,2>>,<<9,3>>>>,
      <<<<4,1>>,<<5,2>>,<<6,2>>,<<7,2>>,<<8,3>>,<<9,3>>>>,
      <<<<4,1>>,<<5,2>>,<<6,2>>,<<7,3>>,<<8,3>>,<<8,4>>,<<9,4>>>>,
      <<<<4,1>>,<<5,2>>,<<6,2>>,<<7,3>>,<<8,3>>,<<9,3>>,<<9,4>>>>,
      <<<<4,1>>,<<5,2>>,<<6,2>>,<<7,3>>,<<8,3>>,<<9,4>>>>,
      <<<<4,1>>,<<5,2>>,<<6,2>>,<<7,3>>,<<8,4>>,<<9,4>>>>,
      <<<<4,2>>,<<4,3>>,<<5,3>>,<<5,4>>,<<6,5>>>>, <<<<4,2>>,<<4,3>>,<<5,3>>,<<6,4>>,<<6,5>>>>,
      <<<<4,2>>,<<4,3>>,<<5,4>>,<<6,5>>>>,
      <<<<4,2>>,<<5,2>>,<<5,3>>,<<6,3>>,<<7,4>>,<<8,4>>,<<9,5>>>>,
      <<<<4,2>>,<<5,2>>,<<5,3>>,<<6,3>>,<<7,4>>,<<8,5>>,<<9,5>>>>,
      <<<<4,2>>,<<5,2>>,<<5,3>>,<<6,4>>,<<7,4>>,<<8,5>>>>,
      <<<<4,2>>,<<5,2>>,<<6,3>>,<<7,3>>,<<8,4>>,<<9,5>>>>,
      <<<<4,2>>,<<5,2>>,<<6,3>>,<<7,4>>,<<8,4>>,<<9,5>>>>,
      <<<<4,2>>,<<5,3>>,<<6,4>>,<<6,5>>,<<7,5>>>>, <<<<4,2>>,<<5,3>>,<<6,4>>,<<7,4>>,<<7,5>>>>,
      <<<<4,2>>,<<5,3>>,<<6,4>>,<<7,5>>>> } ELSE
  IF p = <<4,1>> THEN {
      <<<<3,0>>,<<2,0>>>>, <<<<3,1>>,<<2,0>>,<<1,0>>,<<0,0>>>>, <<<<3,1>>,<<2,1>>,<<1,0>>,<<0,0>>>>,
      <<<<3,1>>,<<2,1>>,<<1,1>>,<<0,0>>>>, <<<<3,1>>,<<2,1>>,<<1,1>>,<<0,1>>>>,
      <<<<3,1>>,<<2,1>>,<<1,1>>,<<0,2>>>>, <<<<3,1>>,<<2,1>>,<<1,2>>,<<0,2>>>>,
      <<<<3,1>>,<<2,2>>,<<1,2>>,<<0,2>>>>, <<<<3,1>>,<<2,2>>,<<1,2>>,<<0,3>>>>,
      <<<<3,2>>,<<2,2>>,<<1,3>>,<<0,3>>>>, <<<<3,2>>,<<2,2>>,<<1,3>>,<<0,4>>>>,
      <<<<3,2>>,<<2,2>>,<<2,3>>,<<1,3>>,<<0,4>>>>, <<<<3,2>>,<<2,2>>,<<2,3>>,<<1,4>>,<<0,4>>>>,
      <<<<3,2>>,<<2,3>>,<<1,4>>,<<0,4>>,<<0,5>>>>, <<<<3,2>>,<<2,3>>,<<1,4>>,<<0,5>>>>,
      <<<<3,2>>,<<2,3>>,<<1,4>>,<<1,5>>,<<0,5>>>>, <<<<3,2>>,<<3,3>>,<<2,3>>,<<1,4>>,<<1,5>>>>,
      <<<<3,2>>,<<3,3>>,<<2,3>>,<<2,4>>,<<1,5>>>>, <<<<3,2>>,<<3,3>>,<<2,4>>,<<1,5>>>>, <<<<4,0>>>>,
      <<<<4,2>>,<<3,3>>,<<3,4>>,<<2,4>>,<<2,5>>>>, <<<<4,2>>,<<3,3>>,<<3,4>>,<<2,5>>>>,
      <<<<4,2>>,<<3,3>>,<<3,4>>,<<3,5>>>>, <<<<4,2>>,<<4,3>>,<<3,4>>,<<3,5>>>>,
      <<<<4,2>>,<<4,3>>,<<4,4>>,<<3,5>>>>, <<<<4,2>>,<<4,3>>,<<4,4>>,<<4,5>>>>,
      <<<<4,2>>,<<4,3>>,<<4,4>>,<<5,5>>>>, <<<<4,2>>,<<4,3>>,<<5,4>>,<<5,5>>>>,
      <<<<4,2>>,<<5,3>>,<<5,4>>,<<5,5>>>>, <<<<4,2>>,<<5,3>>,<<5,4>>,<<6,5>>>>, <<<<5,0>>,<<6,0>>>>,
      <<<<5,1>>,<<6,0>>,<<7,0>>,<<8,0>>,<<9,0>>>>, <<<<5,1>>,<<6,1>>,<<7,0>>,<<8,0>>,<<9,0>>>>,
      <<<<5,1>>,<<6,1>>,<<7,1>>,<<8,0>>,<<9,0>>>>, <<<<5,1>>,<<6,1>>,<<7,1>>,<<8,1>>,<<9,0>>>>,
      <<<<5,1>>,<<6,1>>,<<7,1>>,<<8,1>>,<<9,1>>>>, <<<<5,1>>,<<6,1>>,<<7,1>>,<<8,1>>,<<9,2>>>>,
      <<<<5,1>>,<<6,1>>,<<7,1>>,<<8,2>>,<<9,2>>>>, <<<<5,1>>,<<6,1>>,<<7,2>>,<<8,2>>,<<9,2>>>>,
      <<<<5,1>>,<<6,2>>,<<7,2>>,<<8,2>>,<<9,2>>>>, <<<<5,1>>,<<6,2>>,<<7,2>>,<<8,2>>,<<9,3>>>>,
      <<<<5,1>>,<<6,2>>,<<7,2>>,<<8,3>>,<<9,3>>,<<9,4>>>>,
      <<<<5,1>>,<<6,2>>,<<7,2>>,<<8,3>>,<<9,4>>>>, <<<<5,2>>,<<5,3>>,<<6,3>>,<<6,4>>,<<7,5>>>>,
      <<<<5,2>>,<<5,3>>,<<6,3>>,<<7,4>>,<<7,5>>>>, <<<<5,2>>,<<5,3>>,<<6,4>>,<<7,5>>>>,
      <<<<5,2>>,<<6,2>>,<<6,3>>,<<7,3>>,<<8,4>>,<<9,4>>>>,
      <<<<5,2>>,<<6,2>>,<<6,3>>,<<7,3>>,<<8,4>>,<<9,5>>>>,
      <<<<5,2>>,<<6,2>>,<<6,3>>,<<7,4>>,<<8,4>>,<<9,5>>>>,
      <<<<5,2>>,<<6,2>>,<<7,3>>,<<8,3>>,<<9,4>>>>, <<<<5,2>>,<<6,2>>,<<7,3>>,<<8,4>>,<<9,4>>>>,
      <<<<5,2>>,<<6,3>>,<<7,4>>,<<7,5>>,<<8,5>>>>, <<<<5,2>>,<<6,3>>,<<7,4>>,<<8,4>>,<<8,5>>>>,
      <<<<5,2>>,<<6,3>>,<<7,4>>,<<8,5>>>> } ELSE
  IF p = <<5,1>> THEN {
      <<<<4,0>>,<<3,0>>>>, <<<<4,1>>,<<3,0>>,<<2,0>>,<<1,0>>,<<0,0>>>>,
      <<<<4,1>>,<<3,1>>,<<2,0>>,<<1,0>>,<<0,0>>>>, <<<<4,1>>,<<3,1>>,<<2,1>>,<<1,0>>,<<0,0>>>>,
      <<<<4,1>>,<<3,1>>,<<2,1>>,<<1,1>>,<<0,0>>>>, <<<<4,1>>,<<3,1>>,<<2,1>>,<<1,1>>,<<0,1>>>>,
      <<<<4,1>>,<<3,1>>,<<2,1>>,<<1,1>>,<<0,2>>>>, <<<<4,1>>,<<3,1>>,<<2,1>>,<<1,2>>,<<0,2>>>>,
      <<<<4,1>>,<<3,1>>,<<2,2>>,<<1,2>>,<<0,2>>>>, <<<<4,1>>,<<3,2>>,<<2,2>>,<<1,2>>,<<0,2>>>>,
      <<<<4,1>>,<<3,2>>,<<2,2>>,<<1,2>>,<<0,3>>>>,
      <<<<4,1>>,<<3,2>>,<<2,2>>,<<1,3>>,<<0,3>>,<<0,4>>>>,
      <<<<4,1>>,<<3,2>>,<<2,2>>,<<1,3>>,<<0,4>>>>, <<<<4,2>>,<<3,2>>,<<2,3>>,<<1,3>>,<<0,4>>>>,
      <<<<4,2>>,<<3,2>>,<<2,3>>,<<1,4>>,<<0,4>>>>,
      <<<<4,2>>,<<3,2>>,<<3,3>>,<<2,3>>,<<1,4>>,<<0,4>>>>,
      <<<<4,2>>,<<3,2>>,<<3,3>>,<<2,3>>,<<1,4>>,<<0,5>>>>,
      <<<<4,2>>,<<3,2>>,<<3,3>>,<<2,4>>,<<1,4>>,<<0,5>>>>,
      <<<<4,2>>,<<3,3>>,<<2,4>>,<<1,4>>,<<1,5>>>>, <<<<4,2>>,<<3,3>>,<<2,4>>,<<1,5>>>>,
      <<<<4,2>>,<<3,3>>,<<2,4>>,<<2,5>>,<<1,5>>>>, <<<<4,2>>,<<4,3>>,<<3,3>>,<<2,4>>,<<2,5>>>>,
      <<<<4,2>>,<<4,3>>,<<3,3>>,<<3,4>>,<<2,5>>>>, <<<<4,2>>,<<4,3>>,<<3,4>>,<<2,5>>>>, <<<<5,0>>>>,
      <<<<5,2>>,<<4,3>>,<<4,4>>,<<3,4>>,<<3,5>>>>, <<<<5,2>>,<<4,3>>,<<4,4>>,<<3,5>>>>,
      <<<<5,2>>,<<4,3>>,<<4,4>>,<<4,5>>>>, <<<<5,2>>,<<5,3>>,<<4,4>>,<<4,5>>>>,
      <<<<5,2>>,<<5,3>>,<<5,4>>,<<4,5>>>>, <<<<5,2>>,<<5,3>>,<<5,4>>,<<5,5>>>>,
      <<<<5,2>>,<<5,3>>,<<5,4>>,<<6,5>>>>, <<<<5,2>>,<<5,3>>,<<6,4>>,<<6,5>>>>,
      <<<<5,2>>,<<6,3>>,<<6,4>>,<<6,5>>>>, <<<<5,2>>,<<6,3>>,<<6,4>>,<<7,5>>>>, <<<<6,0>>,<<7,0>>>>,
      <<<<6,1>>,<<7,0>>,<<8,0>>,<<9,0>>>>, <<<<6,1>>,<<7,1>>,<<8,0>>,<<9,0>>>>,
      <<<<6,1>>,<<7,1>>,<<8,1>>,<<9,0>>>>, <<<<6,1>>,<<7,1>>,<<8,1>>,<<9,1>>>>,
      <<<<6,1>>,<<7,1>>,<<8,1>>,<<9,2>>>>, <<<<6,1>>,<<7,1>>,<<8,2>>,<<9,2>>>>,
      <<<<6,1>>,<<7,2>>,<<8,2>>,<<9,2>>>>, <<<<6,1>>,<<7,2>>,<<8,2>>,<<9,3>>>>,
      <<<<6,2>>,<<6,3>>,<<7,3>>,<<7,4>>,<<8,5>>>>, <<<<6,2>>,<<6,3>>,<<7,3>>,<<8,4>>,<<8,5>>>>,
      <<<<6,2>>,<<6,3>>,<<7,4>>,<<8,5>>>>, <<<<6,2>>,<<7,2>>,<<7,3>>,<<8,3>>,<<9,4>>>>,
      <<<<6,2>>,<<7,2>>,<<7,3>>,<<8,4>>,<<9,4>>>>, <<<<6,2>>,<<7,2>>,<<8,3>>,<<9,3>>>>,
      <<<<6,2>>,<<7,2>>,<<8,3>>,<<9,4>>>>, <<<<6,2>>,<<7,3>>,<<8,4>>,<<8,5>>,<<9,5>>>>,
      <<<<6,2>>,<<7,3>>,<<8,4>>,<<9,4>>,<<9,5>>>>, <<<<6,2>>,<<7,3>>,<<8,4>>,<<9,5>>>> } ELSE
  IF p = <<6,1>> THEN {
      <<<<5,0>>,<<4,0>>>>, <<<<5,1>>,<<4,0>>,<<3,0>>,<<2,0>>,<<1,0>>>>,
      <<<<5,1>>,<<4,1>>,<<3,0>>,<<2,0>>,<<1,0>>,<<0,0>>>>,
      <<<<5,1>>,<<4,1>>,<<3,1>>,<<2,0>>,<<1,0>>,<<0,0>>>>,
      <<<<5,1>>,<<4,1>>,<<3,1>>,<<2,1>>,<<1,0>>,<<0,0>>>>,
      <<<<5,1>>,<<4,1>>,<<3,1>>,<<2,1>>,<<1,1>>,<<0,1>>>>,
      <<<<5,1>>,<<4,1>>,<<3,1>>,<<2,1>>,<<1,2>>,<<0,2>>>>,
      <<<<5,1>>,<<4,1>>,<<3,1>>,<<2,2>>,<<1,2>>,<<0,2>>>>,
      <<<<5,1>>,<<4,1>>,<<3,2>>,<<2,2>>,<<1,2>>,<<0,2>>>>,
      <<<<5,1>>,<<4,2>>,<<3,2>>,<<2,2>>,<<1,2>>,<<0,3>>>>,
      <<<<5,1>>,<<4,2>>,<<3,2>>,<<2,2>>,<<1,3>>,<<0,3>>>>,
      <<<<5,1>>,<<4,2>>,<<3,2>>,<<2,3>>,<<1,3>>,<<0,3>>,<<0,4>>>>,
      <<<<5,1>>,<<4,2>>,<<3,2>>,<<2,3>>,<<1,3>>,<<0,4>>>>,
      <<<<5,1>>,<<4,2>>,<<3,2>>,<<2,3>>,<<1,3>>,<<1,4>>,<<0,4>>>>,
      <<<<5,1>>,<<4,2>>,<<3,2>>,<<2,3>>,<<1,4>>,<<0,4>>>>,
      <<<<5,2>>,<<4,2>>,<<3,3>>,<<2,3>>,<<1,4>>,<<0,5>>>>,
      <<<<5,2>>,<<4,2>>,<<3,3>>,<<2,4>>,<<1,4>>,<<0,5>>>>,
      <<<<5,2>>,<<4,2>>,<<4,3>>,<<3,3>>,<<2,4>>,<<1,4>>,<<0,5>>>>,
      <<<<5,2>>,<<4,2>>,<<4,3>>,<<3,3>>,<<2,4>>,<<1,5>>,<<0,5>>>>,
      <<<<5,2>>,<<4,2>>,<<4,3>>,<<3,4>>,<<2,4>>,<<1,5>>>>,
      <<<<5,2>>,<<4,3>>,<<3,4>>,<<2,4>>,<<2,5>>>>, <<<<5,2>>,<<4,3>>,<<3,4>>,<<2,5>>>>,
      <<<<5,2>>,<<4,3>>,<<3,4>>,<<3,5>>,<<2,5>>>>, <<<<5,2>>,<<5,3>>,<<4,3>>,<<3,4>>,<<3,5>>>>,
      <<<<5,2>>,<<5,3>>,<<4,3>>,<<4,4>>,<<3,5>>>>, <<<<5,2>>,<<5,3>>,<<4,4>>,<<3,5>>>>, <<<<6,0>>>>,
      <<<<6,2>>,<<5,3>>,<<5,4>>,<<4,4>>,<<4,5>>>>, <<<<6,2>>,<<5,3>>,<<5,4>>,<<4,5>>>>,
      <<<<6,2>>,<<5,3>>,<<5,4>>,<<5,5>>>>, <<<<6,2>>,<<6,3>>,<<5,4>>,<<5,5>>>>,
      <<<<6,2>>,<<6,3>>,<<6,4>>,<<5,5>>>>, <<<<6,2>>,<<6,3>>,<<6,4>>,<<6,5>>>>,
      <<<<6,2>>,<<6,3>>,<<6,4>>,<<7,5>>>>, <<<<6,2>>,<<6,3>>,<<7,4>>,<<7,5>>>>,
      <<<<6,2>>,<<7,3>>,<<7,4>>,<<7,5>>>>, <<<<6,2>>,<<7,3>>,<<7,4>>,<<8,5>>>>, <<<<7,0>>,<<8,0>>>>,
      <<<<7,1>>,<<8,0>>,<<9,0>>>>, <<<<7,1>>,<<8,1>>,<<9,0>>>>, <<<<7,1>>,<<8,1>>,<<9,1>>>>,
      <<<<7,1>>,<<8,1>>,<<9,2>>>>, <<<<7,1>>,<<8,2>>,<<9,2>>>>,
      <<<<7,2>>,<<7,3>>,<<8,3>>,<<8,4>>,<<9,5>>>>, <<<<7,2>>,<<7,3>>,<<8,3>>,<<9,4>>,<<9,5>>>>,
      <<<<7,2>>,<<7,3>>,<<8,4>>,<<9,5>>>>, <<<<7,2>>,<<8,2>>,<<8,3>>,<<9,3>>>>,
      <<<<7,2>>,<<8,2>>,<<8,3>>,<<9,4>>>>, <<<<7,2>>,<<8,2>>,<<9,3>>>>,
      <<<<7,2>>,<<8,3>>,<<9,4>>,<<9,5>>>> } ELSE
  IF p = <<7,1>> THEN {
      <<<<6,0>>,<<5,0>>>>, <<<<6,1>>,<<5,0>>,<<4,0>>,<<3,0>>,<<2,0>>>>,
      <<<<6,1>>,<<5,1>>,<<4,0>>,<<3,0>>,<<2,0>>,<<1,0>>,<<0,0>>>>,
      <<<<6,1>>,<<5,1>>,<<4,1>>,<<3,0>>,<<2,0>>,<<1,0>>,<<0,0>>>>,
      <<<<6,1>>,<<5,1>>,<<4,1>>,<<3,1>>,<<2,0>>,<<1,0>>,<<0,0>>>>,
      <<<<6,1>>,<<5,1>>,<<4,1>>,<<3,1>>,<<2,1>>,<<1,1>>,<<0,0>>>>,
      <<<<6,1>>,<<5,1>>,<<4,1>>,<<3,1>>,<<2,1>>,<<1,1>>,<<0,1>>>>,
      <<<<6,1>>,<<5,1>>,<<4,1>>,<<3,1>>,<<2,1>>,<<1,1>>,<<0,2>>>>,
      <<<<6,1>>,<<5,1>>,<<4,1>>,<<3,1>>,<<2,2>>,<<1,2>>,<<0,2>>>>,
      <<<<6,1>>,<<5,1>>,<<4,1>>,<<3,2>>,<<2,2>>,<<1,2>>,<<0,2>>>>,
      <<<<6,1>>,<<5,1>>,<<4,2>>,<<3,2>>,<<2,2>>,<<1,2>>,<<0,2>>>>,
      <<<<6,1>>,<<5,1>>,<<4,2>>,<<3,2>>,<<2,2>>,<<1,2>>,<<0,3>>>>,
      <<<<6,1>>,<<5,2>>,<<4,2>>,<<3,2>>,<<2,2>>,<<1,3>>,<<0,3>>>>,
      <<<<6,1>>,<<5,2>>,<<4,2>>,<<3,2>>,<<2,3>>,<<1,3>>,<<0,3>>>>,
      <<<<6,1>>,<<5,2>>,<<4,2>>,<<3,2>>,<<2,3>>,<<1,3>>,<<0,4>>>>,
      <<<<6,1>>,<<5,2>>,<<4,2>>,<<3,3>>,<<2,3>>,<<1,3>>,<<1,4>>>>,
      <<<<6,1>>,<<5,2>>,<<4,2>>,<<3,3>>,<<2,3>>,<<1,4>>>>,
      <<<<6,1>>,<<5,2>>,<<4,2>>,<<3,3>>,<<2,3>>,<<2,4>>,<<1,4>>>>,
      <<<<6,1>>,<<5,2>>,<<4,2>>,<<3,3>>,<<2,4>>,<<1,4>>>>,
      <<<<6,2>>,<<5,2>>,<<4,3>>,<<3,3>>,<<2,4>>,<<1,5>>>>,
      <<<<6,2>>,<<5,2>>,<<4,3>>,<<3,4>>,<<2,4>>,<<1,5>>>>,
      <<<<6,2>>,<<5,2>>,<<5,3>>,<<4,3>>,<<3,4>>,<<2,4>>,<<1,5>>>>,
      <<<<6,2>>,<<5,2>>,<<5,3>>,<<4,3>>,<<3,4>>,<<2,5>>,<<1,5>>>>,
      <<<<6,2>>,<<5,2>>,<<5,3>>,<<4,4>>,<<3,4>>,<<2,5>>>>,
      <<<<6,2>>,<<5,3>>,<<4,4>>,<<3,4>>,<<3,5>>>>, <<<<6,2>>,<<5,3>>,<<4,4>>,<<3,5>>>>,
      <<<<6,2>>,<<5,3>>,<<4,4>>,<<4,5>>,<<3,5>>>>, <<<<6,2>>,<<6,3>>,<<5,3>>,<<4,4>>,<<4,5>>>>,
      <<<<6,2>>,<<6,3>>,<<5,3>>,<<5,4>>,<<4,5>>>>, <<<<6,2>>,<<6,3>>,<<5,4>>,<<4,5>>>>, <<<<7,0>>>>,
      <<<<7,2>>,<<6,3>>,<<6,4>>,<<5,4>>,<<5,5>>>>, <<<<7,2>>,<<6,3>>,<<6,4>>,<<5,5>>>>,
      <<<<7,2>>,<<6,3>>,<<6,4>>,<<6,5>>>>, <<<<7,2>>,<<7,3>>,<<6,4>>,<<6,5>>>>,
      <<<<7,2>>,<<7,3>>,<<7,4>>,<<6,5>>>>, <<<<7,2>>,<<7,3>>,<<7,4>>,<<7,5>>>>,
      <<<<7,2>>,<<7,3>>,<<7,4>>,<<8,5>>>>, <<<<7,2>>,<<7,3>>,<<8,4>>,<<8,5>>>>,
      <<<<7,2>>,<<8,3>>,<<8,4>>,<<8,5>>>>, <<<<7,2>>,<<8,3>>,<<8,4>>,<<9,5>>>>, <<<<8,0>>,<<9,0>>>>,
      <<<<8,1>>,<<9,0>>>>, <<<<8,1>>,<<9,1>>>>, <<<<8,1>>,<<9,2>>>>,
      <<<<8,2>>,<<8,3>>,<<9,3>>,<<9,4>>>>, <<<<8,2>>,<<8,3>>,<<9,4>>>>, <<<<8,2>>,<<9,2>>,<<9,3>>>>,
      <<<<8,2>>,<<9,3>>>> } ELSE
  IF p = <<8,1>> THEN {
      <<<<7,0>>,<<6,0>>>>, <<<<7,1>>,<<6,0>>,<<5,0>>,<<4,0>>,<<3,0>>>>,
      <<<<7,1>>,<<6,1>>,<<5,0>>,<<4,0>>,<<3,0>>,<<2,0>>,<<1,0>>>>,
      <<<<7,1>>,<<6,1>>,<<5,1>>,<<4,0>>,<<3,0>>,<<2,0>>,<<1,0>>>>,
      <<<<7,1>>,<<6,1>>,<<5,1>>,<<4,1>>,<<3,0>>,<<2,0>>,<<1,0>>>>,
      <<<<7,1>>,<<6,1>>,<<5,1>>,<<4,1>>,<<3,1>>,<<2,1>>,<<1,0>>>>,
      <<<<7,1>>,<<6,1>>,<<5,1>>,<<4,1>>,<<3,1>>,<<2,1>>,<<1,1>>>>,
      <<<<7,1>>,<<6,1>>,<<5,1>>,<<4,1>>,<<3,1>>,<<2,1>>,<<1,2>>>>,
      <<<<7,1>>,<<6,1>>,<<5,1>>,<<4,1>>,<<3,2>>,<<2,2>>,<<1,2>>>>,
      <<<<7,1>>,<<6,1>>,<<5,1>>,<<4,2>>,<<3,2>>,<<2,2>>,<<1,2>>>>,
      <<<<7,1>>,<<6,1>>,<<5,2>>,<<4,2>>,<<3,2>>,<<2,2>>,<<1,2>>>>,
      <<<<7,1>>,<<6,1>>,<<5,2>>,<<4,2>>,<<3,2>>,<<2,2>>,<<1,3>>>>,
      <<<<7,1>>,<<6,2>>,<<5,2>>,<<4,2>>,<<3,2>>,<<2,3>>,<<1,3>>>>,
      <<<<7,1>>,<<6,2>>,<<5,2>>,<<4,2>>,<<3,3>>,<<2,3>>,<<1,3>>>>,
      <<<<7,1>>,<<6,2>>,<<5,2>>,<<4,2>>,<<3,3>>,<<2,3>>,<<1,4>>>>,
      <<<<7,1>>,<<6,2>>,<<5,2>>,<<4,3>>,<<3,3>>,<<2,3>>,<<2,4>>>>,
      <<<<7,1>>,<<6,2>>,<<5,2>>,<<4,3>>,<<3,3>>,<<2,4>>>>,
      <<<<7,1>>,<<6,2>>,<<5,2>>,<<4,3>>,<<3,3>>,<<3,4>>,<<2,4>>>>,
      <<<<7,1>>,<<6,2>>,<<5,2>>,<<4,3>>,<<3,4>>,<<2,4>>>>,
      <<<<7,2>>,<<6,2>>,<<5,3>>,<<4,3>>,<<3,4>>,<<2,5>>>>,
      <<<<7,2>>,<<6,2>>,<<5,3>>,<<4,4>>,<<3,4>>,<<2,5>>>>,
      <<<<7,2>>,<<6,2>>,<<6,3>>,<<5,3>>,<<4,4>>,<<3,4>>,<<2,5>>>>,
      <<<<7,2>>,<<6,2>>,<<6,3>>,<<5,3>>,<<4,4>>,<<3,5>>,<<2,5>>>>,
      <<<<7,2>>,<<6,2>>,<<6,3>>,<<5,4>>,<<4,4>>,<<3,5>>>>,
      <<<<7,2>>,<<6,3>>,<<5,4>>,<<4,4>>,<<4,5>>>>, <<<<7,2>>,<<6,3>>,<<5,4>>,<<4,5>>>>,
      <<<<7,2>>,<<6,3>>,<<5,4>>,<<5,5>>,<<4,5>>>>, <<<<7,2>>,<<7,3>>,<<6,3>>,<<5,4>>,<<5,5>>>>,
      <<<<7,2>>,<<7,3>>,<<6,3>>,<<6,4>>,<<5,5>>>>, <<<<7,2>>,<<7,3>>,<<6,4>>,<<5,5>>>>, <<<<8,0>>>>,
      <<<<8,2>>,<<7,3>>,<<7,4>>,<<6,4>>,<<6,5>>>>, <<<<8,2>>,<<7,3>>,<<7,4>>,<<6,5>>>>,
      <<<<8,2>>,<<7,3>>,<<7,4>>,<<7,5>>>>, <<<<8,2>>,<<8,3>>,<<7,4>>,<<7,5>>>>,
      <<<<8,2>>,<<8,3>>,<<8,4>>,<<7,5>>>>, <<<<8,2>>,<<8,3>>,<<8,4>>,<<8,5>>>>,
      <<<<8,2>>,<<8,3>>,<<8,4>>,<<9,5>>>>, <<<<8,2>>,<<8,3>>,<<9,4>>,<<9,5>>>>,
      <<<<8,2>>,<<9,3>>,<<9,4>>,<<9,5>>>>, <<<<9,0>>>>, <<<<9,1>>>>, <<<<9,2>>,<<9,3>>>> } ELSE
  IF p = <<1,2>> THEN {
      <<<<0,1>>,<<0,0>>>>, <<<<0,2>>>>, <<<<0,3>>,<<0,4>>>>, <<<<1,1>>,<<0,0>>>>,
      <<<<1,1>>,<<1,0>>>>, <<<<1,1>>,<<2,0>>>>, <<<<1,3>>,<<0,4>>,<<0,5>>>>,
      <<<<1,3>>,<<1,4>>,<<0,5>>>>, <<<<1,3>>,<<1,4>>,<<1,5>>>>, <<<<1,3>>,<<1,4>>,<<2,5>>>>,
      <<<<1,3>>,<<2,4>>,<<2,5>>>>, <<<<2,1>>,<<2,0>>,<<3,0>>>>, <<<<2,1>>,<<3,0>>>>,
      <<<<2,1>>,<<3,1>>,<<3,0>>,<<4,0>>>>, <<<<2,1>>,<<3,1>>,<<4,0>>>>,
      <<<<2,2>>,<<3,1>>,<<4,1>>,<<5,0>>,<<6,0>>,<<7,0>>>>,
      <<<<2,2>>,<<3,1>>,<<4,1>>,<<5,1>>,<<6,0>>,<<7,0>>,<<8,0>>>>,
      <<<<2,2>>,<<3,1>>,<<4,1>>,<<5,1>>,<<6,1>>,<<7,0>>,<<8,0>>>>,
      <<<<2,2>>,<<3,2>>,<<4,1>>,<<5,1>>,<<6,1>>,<<7,1>>,<<8,0>>>>,
      <<<<2,2>>,<<3,2>>,<<4,1>>,<<5,1>>,<<6,1>>,<<7,1>>,<<8,1>>>>,
      <<<<2,2>>,<<3,2>>,<<4,2>>,<<5,1>>,<<6,1>>,<<7,1>>,<<8,1>>>>,
      <<<<2,2>>,<<3,2>>,<<4,2>>,<<5,2>>,<<6,1>>,<<7,1>>,<<8,1>>>>,
      <<<<2,2>>,<<3,2>>,<<4,2>>,<<5,2>>,<<6,2>>,<<7,2>>,<<8,1>>>>,
      <<<<2,2>>,<<3,2>>,<<4,2>>,<<5,2>>,<<6,2>>,<<7,2>>,<<8,2>>>>,
      <<<<2,2>>,<<3,2>>,<<4,2>>,<<5,2>>,<<6,2>>,<<7,2>>,<<8,3>>>>,
      <<<<2,2>>,<<3,2>>,<<4,2>>,<<5,2>>,<<6,3>>,<<7,3>>,<<8,3>>>>,
      <<<<2,2>>,<<3,2>>,<<4,2>>,<<5,3>>,<<6,3>>,<<7,3>>,<<8,3>>>>,
      <<<<2,2>>,<<3,2>>,<<4,3>>,<<5,3>>,<<6,3>>,<<7,3>>,<<8,3>>>>,
      <<<<2,2>>,<<3,2>>,<<4,3>>,<<5,3>>,<<6,3>>,<<7,3>>,<<8,4>>>>,
      <<<<2,2>>,<<3,3>>,<<4,3>>,<<5,3>>,<<6,3>>,<<7,4>>,<<8,4>>>>,
      <<<<2,2>>,<<3,3>>,<<4,3>>,<<5,3>>,<<6,4>>,<<7,4>>,<<8,4>>>>,
      <<<<2,2>>,<<3,3>>,<<4,3>>,<<5,3>>,<<6,4>>,<<7,4>>,<<8,5>>>>,
      <<<<2,2>>,<<3,3>>,<<4,3>>,<<5,4>>,<<6,4>>,<<6,5>>,<<7,5>>>>,
      <<<<2,2>>,<<3,3>>,<<4,3>>,<<5,4>>,<<6,4>>,<<7,4>>,<<7,5>>>>,
      <<<<2,2>>,<<3,3>>,<<4,3>>,<<5,4>>,<<6,4>>,<<7,5>>>>,
      <<<<2,2>>,<<3,3>>,<<4,3>>,<<5,4>>,<<6,5>>,<<7,5>>>>, <<<<2,3>>,<<2,4>>,<<3,4>>,<<3,5>>>>,
      <<<<2,3>>,<<2,4>>,<<3,4>>,<<4,5>>>>, <<<<2,3>>,<<2,4>>,<<3,5>>>>,
      <<<<2,3>>,<<3,3>>,<<3,4>>,<<4,4>>,<<5,5>>,<<6,5>>>>,
      <<<<2,3>>,<<3,3>>,<<3,4>>,<<4,5>>,<<5,5>>>>, <<<<2,3>>,<<3,3>>,<<4,4>>,<<5,5>>,<<6,5>>>>,
      <<<<2,3>>,<<3,4>>,<<4,5>>,<<5,5>>>> } ELSE
  IF p = <<2,2>> THEN {
      <<<<1,1>>,<<0,0>>>>, <<<<1,1>>,<<0,1>>,<<0,0>>>>, <<<<1,1>>,<<1,0>>,<<0,0>>>>,
      <<<<1,2>>,<<0,1>>>>, <<<<1,2>>,<<0,2>>>>, <<<<1,2>>,<<0,3>>>>, <<<<1,3>>,<<0,3>>,<<0,4>>>>,
      <<<<1,3>>,<<0,4>>>>, <<<<1,3>>,<<1,4>>,<<0,4>>,<<0,5>>>>, <<<<1,3>>,<<1,4>>,<<0,5>>>>,
      <<<<2,1>>,<<1,0>>>>, <<<<2,1>>,<<2,0>>>>, <<<<2,1>>,<<3,0>>>>,
      <<<<2,3>>,<<1,4>>,<<1,5>>,<<0,5>>>>, <<<<2,3>>,<<2,4>>,<<1,5>>>>, <<<<2,3>>,<<2,4>>,<<2,5>>>>,
      <<<<2,3>>,<<2,4>>,<<3,5>>>>, <<<<2,3>>,<<3,4>>,<<3,5>>>>, <<<<3,1>>,<<3,0>>,<<4,0>>>>,
      <<<<3,1>>,<<4,0>>>>, <<<<3,1>>,<<4,1>>,<<4,0>>,<<5,0>>>>, <<<<3,1>>,<<4,1>>,<<5,0>>>>,
      <<<<3,2>>,<<4,1>>,<<5,1>>,<<6,0>>,<<7,0>>,<<8,0>>>>,
      <<<<3,2>>,<<4,1>>,<<5,1>>,<<6,1>>,<<7,0>>,<<8,0>>,<<9,0>>>>,
      <<<<3,2>>,<<4,1>>,<<5,1>>,<<6,1>>,<<7,1>>,<<8,0>>,<<9,0>>>>,
      <<<<3,2>>,<<4,2>>,<<5,1>>,<<6,1>>,<<7,1>>,<<8,1>>,<<9,0>>>>,
      <<<<3,2>>,<<4,2>>,<<5,1>>,<<6,1>>,<<7,1>>,<<8,1>>,<<9,1>>>>,
      <<<<3,2>>,<<4,2>>,<<5,2>>,<<6,1>>,<<7,1>>,<<8,1>>,<<9,1>>>>,
      <<<<3,2>>,<<4,2>>,<<5,2>>,<<6,2>>,<<7,1>>,<<8,1>>,<<9,1>>>>,
      <<<<3,2>>,<<4,2>>,<<5,2>>,<<6,2>>,<<7,2>>,<<8,2>>,<<9,1>>>>,
      <<<<3,2>>,<<4,2>>,<<5,2>>,<<6,2>>,<<7,2>>,<<8,2>>,<<9,2>>>>,
      <<<<3,2>>,<<4,2>>,<<5,2>>,<<6,2>>,<<7,2>>,<<8,2>>,<<9,3>>>>,
      <<<<3,2>>,<<4,2>>,<<5,2>>,<<6,2>>,<<7,3>>,<<8,3>>,<<9,3>>>>,
      <<<<3,2>>,<<4,2>>,<<5,2>>,<<6,3>>,<<7,3>>,<<8,3>>,<<9,3>>>>,
      <<<<3,2>>,<<4,2>>,<<5,3>>,<<6,3>>,<<7,3>>,<<8,3>>,<<9,3>>>>,
      <<<<3,2>>,<<4,2>>,<<5,3>>,<<6,3>>,<<7,3>>,<<8,3>>,<<9,4>>>>,
      <<<<3,2>>,<<4,3>>,<<5,3>>,<<6,3>>,<<7,3>>,<<8,4>>,<<9,4>>>>,
      <<<<3,2>>,<<4,3>>,<<5,3>>,<<6,3>>,<<7,4>>,<<8,4>>,<<9,4>>>>,
      <<<<3,2>>,<<4,3>>,<<5,3>>,<<6,3>>,<<7,4>>,<<8,4>>,<<9,5>>>>,
      <<<<3,2>>,<<4,3>>,<<5,3>>,<<6,4>>,<<7,4>>,<<7,5>>,<<8,5>>>>,
      <<<<3,2>>,<<4,3>>,<<5,3>>,<<6,4>>,<<7,4>>,<<8,4>>,<<8,5>>>>,
      <<<<3,2>>,<<4,3>>,<<5,3>>,<<6,4>>,<<7,4>>,<<8,5>>>>,
      <<<<3,2>>,<<4,3>>,<<5,3>>,<<6,4>>,<<7,5>>,<<8,5>>>>, <<<<3,3>>,<<3,4>>,<<4,4>>,<<4,5>>>>,
      <<<<3,3>>,<<3,4>>,<<4,4>>,<<5,5>>>>, <<<<3,3>>,<<3,4>>,<<4,5>>>>,
      <<<<3,3>>,<<4,3>>,<<4,4>>,<<5,4>>,<<6,5>>,<<7,5>>>>,
      <<<<3,3>>,<<4,3>>,<<4,4>>,<<5,5>>,<<6,5>>>>, <<<<3,3>>,<<4,3>>,<<5,4>>,<<6,5>>,<<7,5>>>>,
      <<<<3,3>>,<<4,4>>,<<5,5>>,<<6,5>>>> } ELSE
  IF p = <<3,2>> THEN {
      <<<<2,1>>,<<1,0>>>>, <<<<2,1>>,<<1,1>>,<<0,0>>>>, <<<<2,1>>,<<1,1>>,<<1,0>>,<<0,0>>>>,
      <<<<2,1>>,<<2,0>>,<<1,0>>>>, <<<<2,2>>,<<1,1>>,<<0,0>>>>, <<<<2,2>>,<<1,1>>,<<0,1>>>>,
      <<<<2,2>>,<<1,2>>,<<0,1>>>>, <<<<2,2>>,<<1,2>>,<<0,2>>>>, <<<<2,2>>,<<1,2>>,<<0,3>>>>,
      <<<<2,2>>,<<1,3>>,<<0,3>>>>, <<<<2,3>>,<<1,3>>,<<0,4>>>>, <<<<2,3>>,<<1,3>>,<<1,4>>,<<0,4>>>>,
      <<<<2,3>>,<<1,3>>,<<1,4>>,<<0,5>>>>, <<<<2,3>>,<<1,4>>,<<0,5>>>>,
      <<<<2,3>>,<<2,4>>,<<1,4>>,<<0,5>>>>, <<<<2,3>>,<<2,4>>,<<1,4>>,<<1,5>>>>,
      <<<<2,3>>,<<2,4>>,<<1,5>>>>, <<<<3,1>>,<<2,0>>>>, <<<<3,1>>,<<3,0>>>>, <<<<3,1>>,<<4,0>>>>,
      <<<<3,3>>,<<2,4>>,<<2,5>>,<<1,5>>>>, <<<<3,3>>,<<3,4>>,<<2,5>>>>, <<<<3,3>>,<<3,4>>,<<3,5>>>>,
      <<<<3,3>>,<<3,4>>,<<4,5>>>>, <<<<3,3>>,<<4,4>>,<<4,5>>>>, <<<<4,1>>,<<4,0>>,<<5,0>>>>,
      <<<<4,1>>,<<5,0>>>>, <<<<4,1>>,<<5,1>>,<<5,0>>,<<6,0>>>>, <<<<4,1>>,<<5,1>>,<<6,0>>>>,
      <<<<4,2>>,<<5,1>>,<<6,1>>,<<7,0>>,<<8,0>>,<<9,0>>>>,
      <<<<4,2>>,<<5,1>>,<<6,1>>,<<7,1>>,<<8,0>>,<<9,0>>>>,
      <<<<4,2>>,<<5,1>>,<<6,1>>,<<7,1>>,<<8,1>>,<<9,0>>>>,
      <<<<4,2>>,<<5,2>>,<<6,1>>,<<7,1>>,<<8,1>>,<<9,1>>>>,
      <<<<4,2>>,<<5,2>>,<<6,2>>,<<7,1>>,<<8,1>>,<<9,1>>>>,
      <<<<4,2>>,<<5,2>>,<<6,2>>,<<7,2>>,<<8,1>>,<<9,1>>>>,
      <<<<4,2>>,<<5,2>>,<<6,2>>,<<7,2>>,<<8,2>>,<<9,2>>>>,
      <<<<4,2>>,<<5,2>>,<<6,2>>,<<7,2>>,<<8,3>>,<<9,3>>>>,
      <<<<4,2>>,<<5,2>>,<<6,2>>,<<7,3>>,<<8,3>>,<<9,3>>>>,
      <<<<4,2>>,<<5,2>>,<<6,3>>,<<7,3>>,<<8,3>>,<<9,3>>>>,
      <<<<4,2>>,<<5,3>>,<<6,3>>,<<7,3>>,<<8,3>>,<<9,4>>>>,
      <<<<4,2>>,<<5,3>>,<<6,3>>,<<7,3>>,<<8,4>>,<<9,4>>>>,
      <<<<4,2>>,<<5,3>>,<<6,3>>,<<7,4>>,<<8,4>>,<<8,5>>,<<9,5>>>>,
      <<<<4,2>>,<<5,3>>,<<6,3>>,<<7,4>>,<<8,4>>,<<9,4>>,<<9,5>>>>,
      <<<<4,2>>,<<5,3>>,<<6,3>>,<<7,4>>,<<8,4>>,<<9,5>>>>,
      <<<<4,2>>,<<5,3>>,<<6,3>>,<<7,4>>,<<8,5>>,<<9,5>>>>, <<<<4,3>>,<<4,4>>,<<5,4>>,<<5,5>>>>,
      <<<<4,3>>,<<4,4>>,<<5,4>>,<<6,5>>>>, <<<<4,3>>,<<4,4>>,<<5,5>>>>,
      <<<<4,3>>,<<5,3>>,<<5,4>>,<<6,4>>,<<7,5>>,<<8,5>>>>,
      <<<<4,3>>,<<5,3>>,<<5,4>>,<<6,5>>,<<7,5>>>>, <<<<4,3>>,<<5,3>>,<<6,4>>,<<7,5>>,<<8,5>>>>,
      <<<<4,3>>,<<5,4>>,<<6,5>>,<<7,5>>>> } ELSE
  IF p = <<4,2>> THEN {
      <<<<3,1>>,<<2,0>>>>, <<<<3,1>>,<<2,1>>,<<1,0>>>>, <<<<3,1>>,<<2,1>>,<<2,0>>,<<1,0>>>>,
      <<<<3,1>>,<<3,0>>,<<2,0>>>>, <<<<3,2>>,<<2,1>>,<<1,0>>>>, <<<<3,2>>,<<2,1>>,<<1,1>>,<<0,0>>>>,
      <<<<3,2>>,<<2,1>>,<<1,1>>,<<0,1>>>>, <<<<3,2>>,<<2,2>>,<<1,1>>,<<0,1>>>>,
      <<<<3,2>>,<<2,2>>,<<1,2>>,<<0,1>>>>, <<<<3,2>>,<<2,2>>,<<1,2>>,<<0,2>>>>,
      <<<<3,2>>,<<2,2>>,<<1,2>>,<<0,3>>>>, <<<<3,2>>,<<2,2>>,<<1,3>>,<<0,3>>>>,
      <<<<3,2>>,<<2,3>>,<<1,3>>,<<0,3>>>>, <<<<3,2>>,<<2,3>>,<<1,3>>,<<0,4>>>>,
      <<<<3,3>>,<<2,3>>,<<1,4>>,<<0,5>>>>, <<<<3,3>>,<<2,3>>,<<2,4>>,<<1,4>>,<<0,5>>>>,
      <<<<3,3>>,<<2,3>>,<<2,4>>,<<1,5>>,<<0,5>>>>, <<<<3,3>>,<<2,4>>,<<1,5>>,<<0,5>>>>,
      <<<<3,3>>,<<3,4>>,<<2,4>>,<<1,5>>>>, <<<<3,3>>,<<3,4>>,<<2,4>>,<<2,5>>>>,
      <<<<3,3>>,<<3,4>>,<<2,5>>>>, <<<<4,1>>,<<3,0>>>>, <<<<4,1>>,<<4,0>>>>, <<<<4,1>>,<<5,0>>>>,
      <<<<4,3>>,<<3,4>>,<<3,5>>,<<2,5>>>>, <<<<4,3>>,<<4,4>>,<<3,5>>>>, <<<<4,3>>,<<4,4>>,<<4,5>>>>,
      <<<<4,3>>,<<4,4>>,<<5,5>>>>, <<<<4,3>>,<<5,4>>,<<5,5>>>>, <<<<5,1>>,<<5,0>>,<<6,0>>>>,
      <<<<5,1>>,<<6,0>>>>, <<<<5,1>>,<<6,1>>,<<6,0>>,<<7,0>>>>, <<<<5,1>>,<<6,1>>,<<7,0>>>>,
      <<<<5,2>>,<<6,1>>,<<7,1>>,<<8,0>>,<<9,0>>>>, <<<<5,2>>,<<6,1>>,<<7,1>>,<<8,1>>,<<9,0>>>>,
      <<<<5,2>>,<<6,1>>,<<7,1>>,<<8,1>>,<<9,1>>>>, <<<<5,2>>,<<6,2>>,<<7,1>>,<<8,1>>,<<9,1>>>>,
      <<<<5,2>>,<<6,2>>,<<7,2>>,<<8,1>>,<<9,1>>>>, <<<<5,2>>,<<6,2>>,<<7,2>>,<<8,2>>,<<9,1>>>>,
      <<<<5,2>>,<<6,2>>,<<7,2>>,<<8,2>>,<<9,2>>>>, <<<<5,2>>,<<6,2>>,<<7,2>>,<<8,2>>,<<9,3>>>>,
      <<<<5,2>>,<<6,2>>,<<7,2>>,<<8,3>>,<<9,3>>>>, <<<<5,2>>,<<6,2>>,<<7,3>>,<<8,3>>,<<9,3>>>>,
      <<<<5,2>>,<<6,3>>,<<7,3>>,<<8,3>>,<<9,3>>>>, <<<<5,2>>,<<6,3>>,<<7,3>>,<<8,3>>,<<9,4>>>>,
      <<<<5,2>>,<<6,3>>,<<7,3>>,<<8,4>>,<<9,4>>,<<9,5>>>>,
      <<<<5,2>>,<<6,3>>,<<7,3>>,<<8,4>>,<<9,5>>>>, <<<<5,3>>,<<5,4>>,<<6,4>>,<<6,5>>>>,
      <<<<5,3>>,<<5,4>>,<<6,4>>,<<7,5>>>>, <<<<5,3>>,<<5,4>>,<<6,5>>>>,
      <<<<5,3>>,<<6,3>>,<<6,4>>,<<7,4>>,<<8,5>>,<<9,5>>>>,
      <<<<5,3>>,<<6,3>>,<<6,4>>,<<7,5>>,<<8,5>>>>, <<<<5,3>>,<<6,3>>,<<7,4>>,<<8,5>>,<<9,5>>>>,
      <<<<5,3>>,<<6,4>>,<<7,5>>,<<8,5>>>> } ELSE
  IF p = <<5,2>> THEN {
      <<<<4,1>>,<<3,0>>>>, <<<<4,1>>,<<3,1>>,<<2,0>>>>, <<<<4,1>>,<<3,1>>,<<3,0>>,<<2,0>>>>,
      <<<<4,1>>,<<4,0>>,<<3,0>>>>, <<<<4,2>>,<<3,1>>,<<2,0>>>>,
      <<<<4,2>>,<<3,1>>,<<2,1>>,<<1,0>>,<<0,0>>>>, <<<<4,2>>,<<3,1>>,<<2,1>>,<<1,1>>,<<0,0>>>>,
      <<<<4,2>>,<<3,1>>,<<2,1>>,<<1,1>>,<<0,1>>>>, <<<<4,2>>,<<3,2>>,<<2,1>>,<<1,1>>,<<0,1>>>>,
      <<<<4,2>>,<<3,2>>,<<2,2>>,<<1,1>>,<<0,1>>>>, <<<<4,2>>,<<3,2>>,<<2,2>>,<<1,2>>,<<0,1>>>>,
      <<<<4,2>>,<<3,2>>,<<2,2>>,<<1,2>>,<<0,2>>>>, <<<<4,2>>,<<3,2>>,<<2,2>>,<<1,2>>,<<0,3>>>>,
      <<<<4,2>>,<<3,2>>,<<2,2>>,<<1,3>>,<<0,3>>>>, <<<<4,2>>,<<3,2>>,<<2,3>>,<<1,3>>,<<0,3>>>>,
      <<<<4,2>>,<<3,3>>,<<2,3>>,<<1,3>>,<<0,3>>>>, <<<<4,2>>,<<3,3>>,<<2,3>>,<<1,3>>,<<0,4>>>>,
      <<<<4,2>>,<<3,3>>,<<2,3>>,<<1,4>>,<<0,4>>,<<0,5>>>>,
      <<<<4,2>>,<<3,3>>,<<2,3>>,<<1,4>>,<<0,5>>>>, <<<<4,3>>,<<3,3>>,<<2,4>>,<<1,5>>,<<0,5>>>>,
      <<<<4,3>>,<<3,3>>,<<3,4>>,<<2,4>>,<<1,5>>,<<0,5>>>>,
      <<<<4,3>>,<<3,3>>,<<3,4>>,<<2,5>>,<<1,5>>>>, <<<<4,3>>,<<3,4>>,<<2,5>>,<<1,5>>>>,
      <<<<4,3>>,<<4,4>>,<<3,4>>,<<2,5>>>>, <<<<4,3>>,<<4,4>>,<<3,4>>,<<3,5>>>>,
      <<<<4,3>>,<<4,4>>,<<3,5>>>>, <<<<5,1>>,<<4,0>>>>, <<<<5,1>>,<<5,0>>>>, <<<<5,1>>,<<6,0>>>>,
      <<<<5,3>>,<<4,4>>,<<4,5>>,<<3,5>>>>, <<<<5,3>>,<<5,4>>,<<4,5>>>>, <<<<5,3>>,<<5,4>>,<<5,5>>>>,
      <<<<5,3>>,<<5,4>>,<<6,5>>>>, <<<<5,3>>,<<6,4>>,<<6,5>>>>, <<<<6,1>>,<<6,0>>,<<7,0>>>>,
      <<<<6,1>>,<<7,0>>>>, <<<<6,1>>,<<7,1>>,<<7,0>>,<<8,0>>>>, <<<<6,1>>,<<7,1>>,<<8,0>>>>,
      <<<<6,2>>,<<7,1>>,<<8,1>>,<<9,0>>>>, <<<<6,2>>,<<7,1>>,<<8,1>>,<<9,1>>>>,
      <<<<6,2>>,<<7,2>>,<<8,1>>,<<9,1>>>>, <<<<6,2>>,<<7,2>>,<<8,2>>,<<9,1>>>>,
      <<<<6,2>>,<<7,2>>,<<8,2>>,<<9,2>>>>, <<<<6,2>>,<<7,2>>,<<8,2>>,<<9,3>>>>,
      <<<<6,2>>,<<7,2>>,<<8,3>>,<<9,3>>>>, <<<<6,2>>,<<7,3>>,<<8,3>>,<<9,3>>>>,
      <<<<6,2>>,<<7,3>>,<<8,3>>,<<9,4>>>>, <<<<6,3>>,<<6,4>>,<<7,4>>,<<7,5>>>>,
      <<<<6,3>>,<<6,4>>,<<7,4>>,<<8,5>>>>, <<<<6,3>>,<<6,4>>,<<7,5>>>>,
      <<<<6,3>>,<<7,3>>,<<7,4>>,<<8,4>>,<<9,5>>>>, <<<<6,3>>,<<7,3>>,<<7,4>>,<<8,5>>,<<9,5>>>>,
      <<<<6,3>>,<<7,3>>,<<8,4>>,<<9,5>>>>, <<<<6,3>>,<<7,4>>,<<8,5>>,<<9,5>>>> } ELSE
  IF p = <<6,2>> THEN {
      <<<<5,1>>,<<4,0>>>>, <<<<5,1>>,<<4,1>>,<<3,0>>>>, <<<<5,1>>,<<4,1>>,<<4,0>>,<<3,0>>>>,
      <<<<5,1>>,<<5,0>>,<<4,0>>>>, <<<<5,2>>,<<4,1>>,<<3,0>>>>,
      <<<<5,2>>,<<4,1>>,<<3,1>>,<<2,0>>,<<1,0>>,<<0,0>>>>,
      <<<<5,2>>,<<4,1>>,<<3,1>>,<<2,1>>,<<1,0>>,<<0,0>>>>,
      <<<<5,2>>,<<4,1>>,<<3,1>>,<<2,1>>,<<1,1>>,<<0,0>>>>,
      <<<<5,2>>,<<4,2>>,<<3,1>>,<<2,1>>,<<1,1>>,<<0,1>>>>,
      <<<<5,2>>,<<4,2>>,<<3,2>>,<<2,1>>,<<1,1>>,<<0,1>>>>,
      <<<<5,2>>,<<4,2>>,<<3,2>>,<<2,2>>,<<1,1>>,<<0,1>>>>,
      <<<<5,2>>,<<4,2>>,<<3,2>>,<<2,2>>,<<1,2>>,<<0,2>>>>,
      <<<<5,2>>,<<4,2>>,<<3,2>>,<<2,2>>,<<1,3>>,<<0,3>>>>,
      <<<<5,2>>,<<4,2>>,<<3,2>>,<<2,3>>,<<1,3>>,<<0,3>>>>,
      <<<<5,2>>,<<4,2>>,<<3,3>>,<<2,3>>,<<1,3>>,<<0,3>>>>,
      <<<<5,2>>,<<4,3>>,<<3,3>>,<<2,3>>,<<1,3>>,<<0,4>>>>,
      <<<<5,2>>,<<4,3>>,<<3,3>>,<<2,3>>,<<1,4>>,<<0,4>>>>,
      <<<<5,2>>,<<4,3>>,<<3,3>>,<<2,4>>,<<1,4>>,<<0,4>>,<<0,5>>>>,
      <<<<5,2>>,<<4,3>>,<<3,3>>,<<2,4>>,<<1,4>>,<<0,5>>>>,
      <<<<5,2>>,<<4,3>>,<<3,3>>,<<2,4>>,<<1,4>>,<<1,5>>,<<0,5>>>>,
      <<<<5,2>>,<<4,3>>,<<3,3>>,<<2,4>>,<<1,5>>,<<0,5>>>>,
      <<<<5,3>>,<<4,3>>,<<3,4>>,<<2,5>>,<<1,5>>>>,
      <<<<5,3>>,<<4,3>>,<<4,4>>,<<3,4>>,<<2,5>>,<<1,5>>>>,
      <<<<5,3>>,<<4,3>>,<<4,4>>,<<3,5>>,<<2,5>>>>, <<<<5,3>>,<<4,4>>,<<3,5>>,<<2,5>>>>,
      <<<<5,3>>,<<5,4>>,<<4,4>>,<<3,5>>>>, <<<<5,3>>,<<5,4>>,<<4,4>>,<<4,5>>>>,
      <<<<5,3>>,<<5,4>>,<<4,5>>>>, <<<<6,1>>,<<5,0>>>>, <<<<6,1>>,<<6,0>>>>, <<<<6,1>>,<<7,0>>>>,
      <<<<6,3>>,<<5,4>>,<<5,5>>,<<4,5>>>>, <<<<6,3>>,<<6,4>>,<<5,5>>>>, <<<<6,3>>,<<6,4>>,<<6,5>>>>,
      <<<<6,3>>,<<6,4>>,<<7,5>>>>, <<<<6,3>>,<<7,4>>,<<7,5>>>>, <<<<7,1>>,<<7,0>>,<<8,0>>>>,
      <<<<7,1>>,<<8,0>>>>, <<<<7,1>>,<<8,1>>,<<8,0>>,<<9,0>>>>, <<<<7,1>>,<<8,1>>,<<9,0>>>>,
      <<<<7,2>>,<<8,1>>,<<9,1>>>>, <<<<7,2>>,<<8,2>>,<<9,1>>>>, <<<<7,2>>,<<8,2>>,<<9,2>>>>,
      <<<<7,2>>,<<8,2>>,<<9,3>>>>, <<<<7,2>>,<<8,3>>,<<9,3>>>>, <<<<7,3>>,<<7,4>>,<<8,4>>,<<8,5>>>>,
      <<<<7,3>>,<<7,4>>,<<8,4>>,<<9,5>>>>, <<<<7,3>>,<<7,4>>,<<8,5>>>>,
      <<<<7,3>>,<<8,3>>,<<8,4>>,<<9,4>>>>, <<<<7,3>>,<<8,3>>,<<8,4>>,<<9,5>>>>,
      <<<<7,3>>,<<8,3>>,<<9,4>>>>, <<<<7,3>>,<<8,4>>,<<9,5>>>> } ELSE
  IF p = <<7,2>> THEN {
      <<<<6,1>>,<<5,0>>>>, <<<<6,1>>,<<5,1>>,<<4,0>>>>, <<<<6,1>>,<<5,1>>,<<5,0>>,<<4,0>>>>,
      <<<<6,1>>,<<6,0>>,<<5,0>>>>, <<<<6,2>>,<<5,1>>,<<4,0>>>>,
      <<<<6,2>>,<<5,1>>,<<4,1>>,<<3,0>>,<<2,0>>,<<1,0>>>>,
      <<<<6,2>>,<<5,1>>,<<4,1>>,<<3,1>>,<<2,0>>,<<1,0>>,<<0,0>>>>,
      <<<<6,2>>,<<5,1>>,<<4,1>>,<<3,1>>,<<2,1>>,<<1,0>>,<<0,0>>>>,
      <<<<6,2>>,<<5,2>>,<<4,1>>,<<3,1>>,<<2,1>>,<<1,1>>,<<0,0>>>>,
      <<<<6,2>>,<<5,2>>,<<4,1>>,<<3,1>>,<<2,1>>,<<1,1>>,<<0,1>>>>,
      <<<<6,2>>,<<5,2>>,<<4,2>>,<<3,1>>,<<2,1>>,<<1,1>>,<<0,1>>>>,
      <<<<6,2>>,<<5,2>>,<<4,2>>,<<3,2>>,<<2,1>>,<<1,1>>,<<0,1>>>>,
      <<<<6,2>>,<<5,2>>,<<4,2>>,<<3,2>>,<<2,2>>,<<1,2>>,<<0,1>>>>,
      <<<<6,2>>,<<5,2>>,<<4,2>>,<<3,2>>,<<2,2>>,<<1,2>>,<<0,2>>>>,
      <<<<6,2>>,<<5,2>>,<<4,2>>,<<3,2>>,<<2,2>>,<<1,2>>,<<0,3>>>>,
      <<<<6,2>>,<<5,2>>,<<4,2>>,<<3,2>>,<<2,3>>,<<1,3>>,<<0,3>>>>,
      <<<<6,2>>,<<5,2>>,<<4,2>>,<<3,3>>,<<2,3>>,<<1,3>>,<<0,3>>>>,
      <<<<6,2>>,<<5,2>>,<<4,3>>,<<3,3>>,<<2,3>>,<<1,3>>,<<0,3>>>>,
      <<<<6,2>>,<<5,2>>,<<4,3>>,<<3,3>>,<<2,3>>,<<1,3>>,<<0,4>>>>,
      <<<<6,2>>,<<5,3>>,<<4,3>>,<<3,3>>,<<2,3>>,<<1,4>>,<<0,4>>>>,
      <<<<6,2>>,<<5,3>>,<<4,3>>,<<3,3>>,<<2,4>>,<<1,4>>,<<0,4>>>>,
      <<<<6,2>>,<<5,3>>,<<4,3>>,<<3,3>>,<<2,4>>,<<1,4>>,<<0,5>>>>,
      <<<<6,2>>,<<5,3>>,<<4,3>>,<<3,4>>,<<2,4>>,<<1,4>>,<<1,5>>>>,
      <<<<6,2>>,<<5,3>>,<<4,3>>,<<3,4>>,<<2,4>>,<<1,5>>>>,
      <<<<6,2>>,<<5,3>>,<<4,3>>,<<3,4>>,<<2,4>>,<<2,5>>,<<1,5>>>>,
      <<<<6,2>>,<<5,3>>,<<4,3>>,<<3,4>>,<<2,5>>,<<1,5>>>>,
      <<<<6,3>>,<<5,3>>,<<4,4>>,<<3,5>>,<<2,5>>>>,
      <<<<6,3>>,<<5,3>>,<<5,4>>,<<4,4>>,<<3,5>>,<<2,5>>>>,
      <<<<6,3>>,<<5,3>>,<<5,4>>,<<4,5>>,<<3,5>>>>, <<<<6,3>>,<<5,4>>,<<4,5>>,<<3,5>>>>,
      <<<<6,3>>,<<6,4>>,<<5,4>>,<<4,5>>>>, <<<<6,3>>,<<6,4>>,<<5,4>>,<<5,5>>>>,
      <<<<6,3>>,<<6,4>>,<<5,5>>>>, <<<<7,1>>,<<6,0>>>>, <<<<7,1>>,<<7,0>>>>, <<<<7,1>>,<<8,0>>>>,
      <<<<7,3>>,<<6,4>>,<<6,5>>,<<5,5>>>>, <<<<7,3>>,<<7,4>>,<<6,5>>>>, <<<<7,3>>,<<7,4>>,<<7,5>>>>,
      <<<<7,3>>,<<7,4>>,<<8,5>>>>, <<<<7,3>>,<<8,4>>,<<8,5>>>>, <<<<8,1>>,<<8,0>>,<<9,0>>>>,
      <<<<8,1>>,<<9,0>>>>, <<<<8,1>>,<<9,1>>,<<9,0>>>>, <<<<8,2>>,<<9,1>>>>, <<<<8,2>>,<<9,2>>>>,
      <<<<8,2>>,<<9,3>>>>, <<<<8,3>>,<<8,4>>,<<9,4>>,<<9,5>>>>, <<<<8,3>>,<<8,4>>,<<9,5>>>>,
      <<<<8,3>>,<<9,3>>,<<9,4>>>>, <<<<8,3>>,<<9,4>>>> } ELSE
  IF p = <<8,2>> THEN {
      <<<<7,1>>,<<6,0>>>>, <<<<7,1>>,<<6,1>>,<<5,0>>>>, <<<<7,1>>,<<6,1>>,<<6,0>>,<<5,0>>>>,
      <<<<7,1>>,<<7,0>>,<<6,0>>>>, <<<<7,2>>,<<6,1>>,<<5,0>>>>,
      <<<<7,2>>,<<6,1>>,<<5,1>>,<<4,0>>,<<3,0>>,<<2,0>>>>,
      <<<<7,2>>,<<6,1>>,<<5,1>>,<<4,1>>,<<3,0>>,<<2,0>>,<<1,0>>>>,
      <<<<7,2>>,<<6,1>>,<<5,1>>,<<4,1>>,<<3,1>>,<<2,0>>,<<1,0>>>>,
      <<<<7,2>>,<<6,2>>,<<5,1>>,<<4,1>>,<<3,1>>,<<2,1>>,<<1,0>>>>,
      <<<<7,2>>,<<6,2>>,<<5,1>>,<<4,1>>,<<3,1>>,<<2,1>>,<<1,1>>>>,
      <<<<7,2>>,<<6,2>>,<<5,2>>,<<4,1>>,<<3,1>>,<<2,1>>,<<1,1>>>>,
      <<<<7,2>>,<<6,2>>,<<5,2>>,<<4,2>>,<<3,1>>,<<2,1>>,<<1,1>>>>,
      <<<<7,2>>,<<6,2>>,<<5,2>>,<<4,2>>,<<3,2>>,<<2,2>>,<<1,1>>>>,
      <<<<7,2>>,<<6,2>>,<<5,2>>,<<4,2>>,<<3,2>>,<<2,2>>,<<1,2>>>>,
      <<<<7,2>>,<<6,2>>,<<5,2>>,<<4,2>>,<<3,2>>,<<2,2>>,<<1,3>>>>,
      <<<<7,2>>,<<6,2>>,<<5,2>>,<<4,2>>,<<3,3>>,<<2,3>>,<<1,3>>>>,
      <<<<7,2>>,<<6,2>>,<<5,2>>,<<4,3>>,<<3,3>>,<<2,3>>,<<1,3>>>>,
      <<<<7,2>>,<<6,2>>,<<5,3>>,<<4,3>>,<<3,3>>,<<2,3>>,<<1,3>>>>,
      <<<<7,2>>,<<6,2>>,<<5,3>>,<<4,3>>,<<3,3>>,<<2,3>>,<<1,4>>>>,
      <<<<7,2>>,<<6,3>>,<<5,3>>,<<4,3>>,<<3,3>>,<<2,4>>,<<1,4>>>>,
      <<<<7,2>>,<<6,3>>,<<5,3>>,<<4,3>>,<<3,4>>,<<2,4>>,<<1,4>>>>,
      <<<<7,2>>,<<6,3>>,<<5,3>>,<<4,3>>,<<3,4>>,<<2,4>>,<<1,5>>>>,
      <<<<7,2>>,<<6,3>>,<<5,3>>,<<4,4>>,<<3,4>>,<<2,4>>,<<2,5>>>>,
      <<<<7,2>>,<<6,3>>,<<5,3>>,<<4,4>>,<<3,4>>,<<2,5>>>>,
      <<<<7,2>>,<<6,3>>,<<5,3>>,<<4,4>>,<<3,4>>,<<3,5>>,<<2,5>>>>,
      <<<<7,2>>,<<6,3>>,<<5,3>>,<<4,4>>,<<3,5>>,<<2,5>>>>,
      <<<<7,3>>,<<6,3>>,<<5,4>>,<<4,5>>,<<3,5>>>>,
      <<<<7,3>>,<<6,3>>,<<6,4>>,<<5,4>>,<<4,5>>,<<3,5>>>>,
      <<<<7,3>>,<<6,3>>,<<6,4>>,<<5,5>>,<<4,5>>>>, <<<<7,3>>,<<6,4>>,<<5,5>>,<<4,5>>>>,
      <<<<7,3>>,<<7,4>>,<<6,4>>,<<5,5>>>>, <<<<7,3>>,<<7,4>>,<<6,4>>,<<6,5>>>>,
      <<<<7,3>>,<<7,4>>,<<6,5>>>>, <<<<8,1>>,<<7,0>>>>, <<<<8,1>>,<<8,0>>>>, <<<<8,1>>,<<9,0>>>>,
      <<<<8,3>>,<<7,4>>,<<7,5>>,<<6,5>>>>, <<<<8,3>>,<<8,4>>,<<7,5>>>>, <<<<8,3>>,<<8,4>>,<<8,5>>>>,
      <<<<8,3>>,<<8,4>>,<<9,5>>>>, <<<<8,3>>,<<9,4>>,<<9,5>>>>, <<<<9,1>>,<<9,0>>>>, <<<<9,2>>>>,
      <<<<9,3>>,<<9,4>>>> } ELSE
  IF p = <<1,3>> THEN {
      <<<<0,2>>,<<0,1>>>>, <<<<0,3>>>>, <<<<0,4>>,<<0,5>>>>, <<<<1,2>>,<<0,1>>,<<0,0>>>>,
      <<<<1,2>>,<<1,1>>,<<0,0>>>>, <<<<1,2>>,<<1,1>>,<<1,0>>>>, <<<<1,2>>,<<1,1>>,<<2,0>>>>,
      <<<<1,2>>,<<2,1>>,<<2,0>>>>, <<<<1,4>>,<<0,5>>>>, <<<<1,4>>,<<1,5>>>>, <<<<1,4>>,<<2,5>>>>,
      <<<<2,2>>,<<2,1>>,<<3,0>>>>, <<<<2,2>>,<<2,1>>,<<3,1>>,<<3,0>>>>,
      <<<<2,2>>,<<2,1>>,<<3,1>>,<<4,0>>>>, <<<<2,2>>,<<3,1>>,<<4,0>>,<<5,0>>>>,
      <<<<2,2>>,<<3,2>>,<<3,1>>,<<4,0>>,<<5,0>>>>,
      <<<<2,2>>,<<3,2>>,<<3,1>>,<<4,1>>,<<5,0>>,<<6,0>>>>,
      <<<<2,2>>,<<3,2>>,<<4,1>>,<<5,0>>,<<6,0>>>>,
      <<<<2,3>>,<<3,2>>,<<4,2>>,<<5,1>>,<<6,0>>,<<7,0>>>>,
      <<<<2,3>>,<<3,2>>,<<4,2>>,<<5,1>>,<<6,1>>,<<6,0>>,<<7,0>>>>,
      <<<<2,3>>,<<3,2>>,<<4,2>>,<<5,1>>,<<6,1>>,<<7,0>>>>,
      <<<<2,3>>,<<3,2>>,<<4,2>>,<<5,1>>,<<6,1>>,<<7,1>>,<<7,0>>>>,
      <<<<2,3>>,<<3,2>>,<<4,2>>,<<5,2>>,<<6,1>>,<<7,1>>,<<8,0>>>>,
      <<<<2,3>>,<<3,2>>,<<4,2>>,<<5,2>>,<<6,1>>,<<7,1>>,<<8,1>>>>,
      <<<<2,3>>,<<3,2>>,<<4,2>>,<<5,2>>,<<6,2>>,<<7,1>>,<<8,1>>>>,
      <<<<2,3>>,<<3,3>>,<<4,2>>,<<5,2>>,<<6,2>>,<<7,2>>,<<8,1>>>>,
      <<<<2,3>>,<<3,3>>,<<4,2>>,<<5,2>>,<<6,2>>,<<7,2>>,<<8,2>>>>,
      <<<<2,3>>,<<3,3>>,<<4,3>>,<<5,2>>,<<6,2>>,<<7,2>>,<<8,2>>>>,
      <<<<2,3>>,<<3,3>>,<<4,3>>,<<5,3>>,<<6,2>>,<<7,2>>,<<8,2>>>>,
      <<<<2,3>>,<<3,3>>,<<4,3>>,<<5,3>>,<<6,3>>,<<7,3>>,<<8,2>>>>,
      <<<<2,3>>,<<3,3>>,<<4,3>>,<<5,3>>,<<6,3>>,<<7,3>>,<<8,3>>>>,
      <<<<2,3>>,<<3,3>>,<<4,3>>,<<5,3>>,<<6,3>>,<<7,3>>,<<8,4>>>>,
      <<<<2,3>>,<<3,3>>,<<4,3>>,<<5,3>>,<<6,4>>,<<7,4>>,<<8,4>>>>,
      <<<<2,3>>,<<3,3>>,<<4,3>>,<<5,4>>,<<6,4>>,<<7,4>>,<<8,4>>>>,
      <<<<2,3>>,<<3,3>>,<<4,4>>,<<5,4>>,<<6,4>>,<<7,4>>,<<8,4>>>>,
      <<<<2,3>>,<<3,3>>,<<4,4>>,<<5,4>>,<<6,4>>,<<7,4>>,<<8,5>>>>,
      <<<<2,3>>,<<3,4>>,<<4,4>>,<<5,4>>,<<6,4>>,<<7,5>>,<<8,5>>>>,
      <<<<2,3>>,<<3,4>>,<<4,4>>,<<5,4>>,<<6,5>>,<<7,5>>,<<8,5>>>>,
      <<<<2,3>>,<<3,4>>,<<4,4>>,<<5,5>>,<<6,5>>,<<7,5>>>>, <<<<2,4>>,<<2,5>>,<<3,5>>>>,
      <<<<2,4>>,<<3,4>>,<<3,5>>,<<4,5>>>>, <<<<2,4>>,<<3,4>>,<<4,5>>>>, <<<<2,4>>,<<3,5>>>> } ELSE
  IF p = <<2,3>> THEN {
      <<<<1,2>>,<<0,1>>>>, <<<<1,2>>,<<0,2>>,<<0,1>>>>, <<<<1,2>>,<<1,1>>,<<0,0>>>>,
      <<<<1,2>>,<<1,1>>,<<0,1>>,<<0,0>>>>, <<<<1,3>>,<<0,2>>>>, <<<<1,3>>,<<0,3>>>>,
      <<<<1,3>>,<<0,4>>>>, <<<<1,4>>,<<0,4>>,<<0,5>>>>, <<<<1,4>>,<<0,5>>>>,
      <<<<1,4>>,<<1,5>>,<<0,5>>>>, <<<<2,2>>,<<1,1>>,<<1,0>>>>, <<<<2,2>>,<<2,1>>,<<1,0>>>>,
      <<<<2,2>>,<<2,1>>,<<2,0>>>>, <<<<2,2>>,<<2,1>>,<<3,0>>>>, <<<<2,2>>,<<3,1>>,<<3,0>>>>,
      <<<<2,4>>,<<1,5>>>>, <<<<2,4>>,<<2,5>>>>, <<<<2,4>>,<<3,5>>>>, <<<<3,2>>,<<3,1>>,<<4,0>>>>,
      <<<<3,2>>,<<3,1>>,<<4,1>>,<<4,0>>>>, <<<<3,2>>,<<3,1>>,<<4,1>>,<<5,0>>>>,
      <<<<3,2>>,<<4,1>>,<<5,0>>,<<6,0>>>>, <<<<3,2>>,<<4,2>>,<<4,1>>,<<5,0>>,<<6,0>>>>,
      <<<<3,2>>,<<4,2>>,<<4,1>>,<<5,1>>,<<6,0>>,<<7,0>>>>,
      <<<<3,2>>,<<4,2>>,<<5,1>>,<<6,0>>,<<7,0>>>>,
      <<<<3,3>>,<<4,2>>,<<5,2>>,<<6,1>>,<<7,0>>,<<8,0>>>>,
      <<<<3,3>>,<<4,2>>,<<5,2>>,<<6,1>>,<<7,1>>,<<7,0>>,<<8,0>>>>,
      <<<<3,3>>,<<4,2>>,<<5,2>>,<<6,1>>,<<7,1>>,<<8,0>>>>,
      <<<<3,3>>,<<4,2>>,<<5,2>>,<<6,1>>,<<7,1>>,<<8,1>>,<<8,0>>>>,
      <<<<3,3>>,<<4,2>>,<<5,2>>,<<6,2>>,<<7,1>>,<<8,1>>,<<9,0>>>>,
      <<<<3,3>>,<<4,2>>,<<5,2>>,<<6,2>>,<<7,1>>,<<8,1>>,<<9,1>>>>,
      <<<<3,3>>,<<4,2>>,<<5,2>>,<<6,2>>,<<7,2>>,<<8,1>>,<<9,1>>>>,
      <<<<3,3>>,<<4,3>>,<<5,2>>,<<6,2>>,<<7,2>>,<<8,2>>,<<9,1>>>>,
      <<<<3,3>>,<<4,3>>,<<5,2>>,<<6,2>>,<<7,2>>,<<8,2>>,<<9,2>>>>,
      <<<<3,3>>,<<4,3>>,<<5,3>>,<<6,2>>,<<7,2>>,<<8,2>>,<<9,2>>>>,
      <<<<3,3>>,<<4,3>>,<<5,3>>,<<6,3>>,<<7,2>>,<<8,2>>,<<9,2>>>>,
      <<<<3,3>>,<<4,3>>,<<5,3>>,<<6,3>>,<<7,3>>,<<8,3>>,<<9,2>>>>,
      <<<<3,3>>,<<4,3>>,<<5,3>>,<<6,3>>,<<7,3>>,<<8,3>>,<<9,3>>>>,
      <<<<3,3>>,<<4,3>>,<<5,3>>,<<6,3>>,<<7,3>>,<<8,3>>,<<9,4>>>>,
      <<<<3,3>>,<<4,3>>,<<5,3>>,<<6,3>>,<<7,4>>,<<8,4>>,<<9,4>>>>,
      <<<<3,3>>,<<4,3>>,<<5,3>>,<<6,4>>,<<7,4>>,<<8,4>>,<<9,4>>>>,
      <<<<3,3>>,<<4,3>>,<<5,4>>,<<6,4>>,<<7,4>>,<<8,4>>,<<9,4>>>>,
      <<<<3,3>>,<<4,3>>,<<5,4>>,<<6,4>>,<<7,4>>,<<8,4>>,<<9,5>>>>,
      <<<<3,3>>,<<4,4>>,<<5,4>>,<<6,4>>,<<7,4>>,<<8,5>>,<<9,5>>>>,
      <<<<3,3>>,<<4,4>>,<<5,4>>,<<6,4>>,<<7,5>>,<<8,5>>,<<9,5>>>>,
      <<<<3,3>>,<<4,4>>,<<5,4>>,<<6,5>>,<<7,5>>,<<8,5>>>>, <<<<3,4>>,<<3,5>>,<<4,5>>>>,
      <<<<3,4>>,<<4,4>>,<<4,5>>,<<5,5>>>>, <<<<3,4>>,<<4,4>>,<<5,5>>>>, <<<<3,4>>,<<4,5>>>> } ELSE
  IF p = <<3,3>> THEN {
      <<<<2,2>>,<<1,1>>,<<0,0>>>>, <<<<2,2>>,<<1,2>>,<<0,1>>>>, <<<<2,2>>,<<1,2>>,<<1,1>>,<<0,0>>>>,
      <<<<2,2>>,<<1,2>>,<<1,1>>,<<0,1>>>>, <<<<2,2>>,<<2,1>>,<<1,0>>>>,
      <<<<2,2>>,<<2,1>>,<<1,1>>,<<0,0>>>>, <<<<2,2>>,<<2,1>>,<<1,1>>,<<1,0>>>>,
      <<<<2,3>>,<<1,2>>,<<0,1>>>>, <<<<2,3>>,<<1,2>>,<<0,2>>>>, <<<<2,3>>,<<1,3>>,<<0,2>>>>,
      <<<<2,3>>,<<1,3>>,<<0,3>>>>, <<<<2,3>>,<<1,3>>,<<0,4>>>>, <<<<2,3>>,<<1,4>>,<<0,4>>>>,
      <<<<2,4>>,<<1,4>>,<<0,5>>>>, <<<<2,4>>,<<1,4>>,<<1,5>>,<<0,5>>>>, <<<<2,4>>,<<1,5>>>>,
      <<<<2,4>>,<<2,5>>,<<1,5>>>>, <<<<3,2>>,<<2,1>>,<<2,0>>>>, <<<<3,2>>,<<3,1>>,<<2,0>>>>,
      <<<<3,2>>,<<3,1>>,<<3,0>>>>, <<<<3,2>>,<<3,1>>,<<4,0>>>>, <<<<3,2>>,<<4,1>>,<<4,0>>>>,
      <<<<3,4>>,<<2,5>>>>, <<<<3,4>>,<<3,5>>>>, <<<<3,4>>,<<4,5>>>>, <<<<4,2>>,<<4,1>>,<<5,0>>>>,
      <<<<4,2>>,<<4,1>>,<<5,1>>,<<5,0>>>>, <<<<4,2>>,<<4,1>>,<<5,1>>,<<6,0>>>>,
      <<<<4,2>>,<<5,1>>,<<6,0>>,<<7,0>>>>, <<<<4,2>>,<<5,2>>,<<5,1>>,<<6,0>>,<<7,0>>>>,
      <<<<4,2>>,<<5,2>>,<<5,1>>,<<6,1>>,<<7,0>>,<<8,0>>>>,
      <<<<4,2>>,<<5,2>>,<<6,1>>,<<7,0>>,<<8,0>>>>,
      <<<<4,3>>,<<5,2>>,<<6,2>>,<<7,1>>,<<8,0>>,<<9,0>>>>,
      <<<<4,3>>,<<5,2>>,<<6,2>>,<<7,1>>,<<8,1>>,<<8,0>>,<<9,0>>>>,
      <<<<4,3>>,<<5,2>>,<<6,2>>,<<7,1>>,<<8,1>>,<<9,0>>>>,
      <<<<4,3>>,<<5,2>>,<<6,2>>,<<7,1>>,<<8,1>>,<<9,1>>,<<9,0>>>>,
      <<<<4,3>>,<<5,2>>,<<6,2>>,<<7,2>>,<<8,1>>,<<9,1>>>>,
      <<<<4,3>>,<<5,2>>,<<6,2>>,<<7,2>>,<<8,2>>,<<9,1>>>>,
      <<<<4,3>>,<<5,3>>,<<6,2>>,<<7,2>>,<<8,2>>,<<9,2>>>>,
      <<<<4,3>>,<<5,3>>,<<6,3>>,<<7,2>>,<<8,2>>,<<9,2>>>>,
      <<<<4,3>>,<<5,3>>,<<6,3>>,<<7,3>>,<<8,2>>,<<9,2>>>>,
      <<<<4,3>>,<<5,3>>,<<6,3>>,<<7,3>>,<<8,3>>,<<9,3>>>>,
      <<<<4,3>>,<<5,3>>,<<6,3>>,<<7,3>>,<<8,4>>,<<9,4>>>>,
      <<<<4,3>>,<<5,3>>,<<6,3>>,<<7,4>>,<<8,4>>,<<9,4>>>>,
      <<<<4,3>>,<<5,3>>,<<6,4>>,<<7,4>>,<<8,4>>,<<9,4>>>>,
      <<<<4,3>>,<<5,4>>,<<6,4>>,<<7,4>>,<<8,4>>,<<9,5>>>>,
      <<<<4,3>>,<<5,4>>,<<6,4>>,<<7,4>>,<<8,5>>,<<9,5>>>>,
      <<<<4,3>>,<<5,4>>,<<6,4>>,<<7,5>>,<<8,5>>,<<9,5>>>>, <<<<4,4>>,<<4,5>>,<<5,5>>>>,
      <<<<4,4>>,<<5,4>>,<<5,5>>,<<6,5>>>>, <<<<4,4>>,<<5,4>>,<<6,5>>>>, <<<<4,4>>,<<5,5>>>> } ELSE
  IF p = <<4,3>> THEN {
      <<<<3,2>>,<<2,1>>,<<1,0>>,<<0,0>>>>, <<<<3,2>>,<<2,2>>,<<1,1>>,<<0,0>>>>,
      <<<<3,2>>,<<2,2>>,<<2,1>>,<<1,0>>,<<0,0>>>>, <<<<3,2>>,<<2,2>>,<<2,1>>,<<1,1>>,<<0,0>>>>,
      <<<<3,2>>,<<3,1>>,<<2,0>>>>, <<<<3,2>>,<<3,1>>,<<2,1>>,<<1,0>>>>,
      <<<<3,2>>,<<3,1>>,<<2,1>>,<<2,0>>>>, <<<<3,3>>,<<2,2>>,<<1,1>>,<<0,0>>>>,
      <<<<3,3>>,<<2,2>>,<<1,2>>,<<0,1>>>>, <<<<3,3>>,<<2,2>>,<<1,2>>,<<0,2>>>>,
      <<<<3,3>>,<<2,3>>,<<1,2>>,<<0,2>>>>, <<<<3,3>>,<<2,3>>,<<1,3>>,<<0,2>>>>,
      <<<<3,3>>,<<2,3>>,<<1,3>>,<<0,3>>>>, <<<<3,3>>,<<2,3>>,<<1,3>>,<<0,4>>>>,
      <<<<3,3>>,<<2,3>>,<<1,4>>,<<0,4>>>>, <<<<3,3>>,<<2,4>>,<<1,4>>,<<0,4>>>>,
      <<<<3,3>>,<<2,4>>,<<1,4>>,<<0,5>>>>, <<<<3,4>>,<<2,4>>,<<1,5>>>>,
      <<<<3,4>>,<<2,4>>,<<2,5>>,<<1,5>>>>, <<<<3,4>>,<<2,5>>>>, <<<<3,4>>,<<3,5>>,<<2,5>>>>,
      <<<<4,2>>,<<3,1>>,<<3,0>>>>, <<<<4,2>>,<<4,1>>,<<3,0>>>>, <<<<4,2>>,<<4,1>>,<<4,0>>>>,
      <<<<4,2>>,<<4,1>>,<<5,0>>>>, <<<<4,2>>,<<5,1>>,<<5,0>>>>, <<<<4,4>>,<<3,5>>>>,
      <<<<4,4>>,<<4,5>>>>, <<<<4,4>>,<<5,5>>>>, <<<<5,2>>,<<5,1>>,<<6,0>>>>,
      <<<<5,2>>,<<5,1>>,<<6,1>>,<<6,0>>>>, <<<<5,2>>,<<5,1>>,<<6,1>>,<<7,0>>>>,
      <<<<5,2>>,<<6,1>>,<<7,0>>,<<8,0>>>>, <<<<5,2>>,<<6,2>>,<<6,1>>,<<7,0>>,<<8,0>>>>,
      <<<<5,2>>,<<6,2>>,<<6,1>>,<<7,1>>,<<8,0>>,<<9,0>>>>,
      <<<<5,2>>,<<6,2>>,<<7,1>>,<<8,0>>,<<9,0>>>>, <<<<5,3>>,<<6,2>>,<<7,2>>,<<8,1>>,<<9,0>>>>,
      <<<<5,3>>,<<6,2>>,<<7,2>>,<<8,1>>,<<9,1>>,<<9,0>>>>,
      <<<<5,3>>,<<6,2>>,<<7,2>>,<<8,2>>,<<9,1>>>>, <<<<5,3>>,<<6,2>>,<<7,2>>,<<8,2>>,<<9,2>>>>,
      <<<<5,3>>,<<6,3>>,<<7,2>>,<<8,2>>,<<9,2>>>>, <<<<5,3>>,<<6,3>>,<<7,3>>,<<8,2>>,<<9,2>>>>,
      <<<<5,3>>,<<6,3>>,<<7,3>>,<<8,3>>,<<9,2>>>>, <<<<5,3>>,<<6,3>>,<<7,3>>,<<8,3>>,<<9,3>>>>,
      <<<<5,3>>,<<6,3>>,<<7,3>>,<<8,3>>,<<9,4>>>>, <<<<5,3>>,<<6,3>>,<<7,3>>,<<8,4>>,<<9,4>>>>,
      <<<<5,3>>,<<6,3>>,<<7,4>>,<<8,4>>,<<9,4>>>>, <<<<5,3>>,<<6,4>>,<<7,4>>,<<8,4>>,<<9,4>>>>,
      <<<<5,3>>,<<6,4>>,<<7,4>>,<<8,4>>,<<9,5>>>>, <<<<5,3>>,<<6,4>>,<<7,4>>,<<8,5>>,<<9,5>>>>,
      <<<<5,4>>,<<5,5>>,<<6,5>>>>, <<<<5,4>>,<<6,4>>,<<6,5>>,<<7,5>>>>, <<<<5,4>>,<<6,4>>,<<7,5>>>>,
      <<<<5,4>>,<<6,5>>>> } ELSE
  IF p = <<5,3>> THEN {
      <<<<4,2>>,<<3,1>>,<<2,0>>,<<1,0>>>>, <<<<4,2>>,<<3,2>>,<<2,1>>,<<1,0>>,<<0,0>>>>,
      <<<<4,2>>,<<3,2>>,<<3,1>>,<<2,0>>,<<1,0>>>>,
      <<<<4,2>>,<<3,2>>,<<3,1>>,<<2,1>>,<<1,0>>,<<0,0>>>>, <<<<4,2>>,<<4,1>>,<<3,0>>>>,
      <<<<4,2>>,<<4,1>>,<<3,1>>,<<2,0>>>>, <<<<4,2>>,<<4,1>>,<<3,1>>,<<3,0>>>>,
      <<<<4,3>>,<<3,2>>,<<2,1>>,<<1,0>>,<<0,0>>>>, <<<<4,3>>,<<3,2>>,<<2,2>>,<<1,1>>,<<0,0>>>>,
      <<<<4,3>>,<<3,2>>,<<2,2>>,<<1,1>>,<<0,1>>,<<0,0>>>>,
      <<<<4,3>>,<<3,2>>,<<2,2>>,<<1,2>>,<<0,1>>>>, <<<<4,3>>,<<3,2>>,<<2,2>>,<<1,2>>,<<0,2>>>>,
      <<<<4,3>>,<<3,3>>,<<2,2>>,<<1,2>>,<<0,2>>>>, <<<<4,3>>,<<3,3>>,<<2,3>>,<<1,2>>,<<0,2>>>>,
      <<<<4,3>>,<<3,3>>,<<2,3>>,<<1,3>>,<<0,2>>>>, <<<<4,3>>,<<3,3>>,<<2,3>>,<<1,3>>,<<0,3>>>>,
      <<<<4,3>>,<<3,3>>,<<2,3>>,<<1,3>>,<<0,4>>>>, <<<<4,3>>,<<3,3>>,<<2,3>>,<<1,4>>,<<0,4>>>>,
      <<<<4,3>>,<<3,3>>,<<2,4>>,<<1,4>>,<<0,4>>>>, <<<<4,3>>,<<3,4>>,<<2,4>>,<<1,4>>,<<0,4>>>>,
      <<<<4,3>>,<<3,4>>,<<2,4>>,<<1,4>>,<<0,5>>>>, <<<<4,3>>,<<3,4>>,<<2,4>>,<<1,5>>,<<0,5>>>>,
      <<<<4,4>>,<<3,4>>,<<2,5>>>>, <<<<4,4>>,<<3,4>>,<<3,5>>,<<2,5>>>>, <<<<4,4>>,<<3,5>>>>,
      <<<<4,4>>,<<4,5>>,<<3,5>>>>, <<<<5,2>>,<<4,1>>,<<3,0>>>>, <<<<5,2>>,<<4,1>>,<<4,0>>>>,
      <<<<5,2>>,<<5,1>>,<<4,0>>>>, <<<<5,2>>,<<5,1>>,<<5,0>>>>, <<<<5,2>>,<<5,1>>,<<6,0>>>>,
      <<<<5,2>>,<<6,1>>,<<6,0>>>>, <<<<5,4>>,<<4,5>>>>, <<<<5,4>>,<<5,5>>>>, <<<<5,4>>,<<6,5>>>>,
      <<<<6,2>>,<<6,1>>,<<7,0>>>>, <<<<6,2>>,<<6,1>>,<<7,1>>,<<7,0>>>>,
      <<<<6,2>>,<<6,1>>,<<7,1>>,<<8,0>>>>, <<<<6,2>>,<<7,1>>,<<8,0>>,<<9,0>>>>,
      <<<<6,2>>,<<7,2>>,<<7,1>>,<<8,0>>,<<9,0>>>>, <<<<6,2>>,<<7,2>>,<<7,1>>,<<8,1>>,<<9,0>>>>,
      <<<<6,2>>,<<7,2>>,<<8,1>>,<<9,0>>>>, <<<<6,3>>,<<7,2>>,<<8,2>>,<<9,1>>>>,
      <<<<6,3>>,<<7,2>>,<<8,2>>,<<9,2>>>>, <<<<6,3>>,<<7,3>>,<<8,2>>,<<9,2>>>>,
      <<<<6,3>>,<<7,3>>,<<8,3>>,<<9,2>>>>, <<<<6,3>>,<<7,3>>,<<8,3>>,<<9,3>>>>,
      <<<<6,3>>,<<7,3>>,<<8,3>>,<<9,4>>>>, <<<<6,3>>,<<7,3>>,<<8,4>>,<<9,4>>>>,
      <<<<6,3>>,<<7,4>>,<<8,4>>,<<9,4>>>>, <<<<6,3>>,<<7,4>>,<<8,4>>,<<9,5>>>>,
      <<<<6,4>>,<<6,5>>,<<7,5>>>>, <<<<6,4>>,<<7,4>>,<<7,5>>,<<8,5>>>>, <<<<6,4>>,<<7,4>>,<<8,5>>>>,
      <<<<6,4>>,<<7,5>>>> } ELSE
  IF p = <<6,3>> THEN {
      <<<<5,2>>,<<4,1>>,<<3,0>>,<<2,0>>>>, <<<<5,2>>,<<4,2>>,<<3,1>>,<<2,0>>,<<1,0>>>>,
      <<<<5,2>>,<<4,2>>,<<4,1>>,<<3,0>>,<<2,0>>>>,
      <<<<5,2>>,<<4,2>>,<<4,1>>,<<3,1>>,<<2,0>>,<<1,0>>>>, <<<<5,2>>,<<5,1>>,<<4,0>>>>,
      <<<<5,2>>,<<5,1>>,<<4,1>>,<<3,0>>>>, <<<<5,2>>,<<5,1>>,<<4,1>>,<<4,0>>>>,
      <<<<5,3>>,<<4,2>>,<<3,1>>,<<2,0>>,<<1,0>>>>,
      <<<<5,3>>,<<4,2>>,<<3,2>>,<<2,1>>,<<1,0>>,<<0,0>>>>,
      <<<<5,3>>,<<4,2>>,<<3,2>>,<<2,1>>,<<1,1>>,<<0,0>>>>,
      <<<<5,3>>,<<4,2>>,<<3,2>>,<<2,1>>,<<1,1>>,<<0,1>>,<<0,0>>>>,
      <<<<5,3>>,<<4,2>>,<<3,2>>,<<2,1>>,<<1,1>>,<<1,0>>,<<0,0>>>>,
      <<<<5,3>>,<<4,2>>,<<3,2>>,<<2,2>>,<<1,1>>,<<0,1>>>>,
      <<<<5,3>>,<<4,2>>,<<3,2>>,<<2,2>>,<<1,2>>,<<0,1>>>>,
      <<<<5,3>>,<<4,3>>,<<3,2>>,<<2,2>>,<<1,2>>,<<0,2>>>>,
      <<<<5,3>>,<<4,3>>,<<3,3>>,<<2,2>>,<<1,2>>,<<0,2>>>>,
      <<<<5,3>>,<<4,3>>,<<3,3>>,<<2,3>>,<<1,2>>,<<0,2>>>>,
      <<<<5,3>>,<<4,3>>,<<3,3>>,<<2,3>>,<<1,3>>,<<0,3>>>>,
      <<<<5,3>>,<<4,3>>,<<3,3>>,<<2,3>>,<<1,4>>,<<0,4>>>>,
      <<<<5,3>>,<<4,3>>,<<3,3>>,<<2,4>>,<<1,4>>,<<0,4>>>>,
      <<<<5,3>>,<<4,3>>,<<3,4>>,<<2,4>>,<<1,4>>,<<0,4>>>>,
      <<<<5,3>>,<<4,4>>,<<3,4>>,<<2,4>>,<<1,4>>,<<0,5>>>>,
      <<<<5,3>>,<<4,4>>,<<3,4>>,<<2,4>>,<<1,5>>,<<0,5>>>>,
      <<<<5,3>>,<<4,4>>,<<3,4>>,<<2,5>>,<<1,5>>,<<0,5>>>>, <<<<5,4>>,<<4,4>>,<<3,5>>>>,
      <<<<5,4>>,<<4,4>>,<<4,5>>,<<3,5>>>>, <<<<5,4>>,<<4,5>>>>, <<<<5,4>>,<<5,5>>,<<4,5>>>>,
      <<<<6,2>>,<<5,1>>,<<4,0>>>>, <<<<6,2>>,<<5,1>>,<<5,0>>>>, <<<<6,2>>,<<6,1>>,<<5,0>>>>,
      <<<<6,2>>,<<6,1>>,<<6,0>>>>, <<<<6,2>>,<<6,1>>,<<7,0>>>>, <<<<6,2>>,<<7,1>>,<<7,0>>>>,
      <<<<6,4>>,<<5,5>>>>, <<<<6,4>>,<<6,5>>>>, <<<<6,4>>,<<7,5>>>>, <<<<7,2>>,<<7,1>>,<<8,0>>>>,
      <<<<7,2>>,<<7,1>>,<<8,1>>,<<8,0>>>>, <<<<7,2>>,<<7,1>>,<<8,1>>,<<9,0>>>>,
      <<<<7,2>>,<<8,1>>,<<9,0>>>>, <<<<7,2>>,<<8,2>>,<<8,1>>,<<9,0>>>>,
      <<<<7,2>>,<<8,2>>,<<8,1>>,<<9,1>>>>, <<<<7,2>>,<<8,2>>,<<9,1>>>>, <<<<7,3>>,<<8,2>>,<<9,2>>>>,
      <<<<7,3>>,<<8,3>>,<<9,2>>>>, <<<<7,3>>,<<8,3>>,<<9,3>>>>, <<<<7,3>>,<<8,3>>,<<9,4>>>>,
      <<<<7,3>>,<<8,4>>,<<9,4>>>>, <<<<7,4>>,<<7,5>>,<<8,5>>>>, <<<<7,4>>,<<8,4>>,<<8,5>>,<<9,5>>>>,
      <<<<7,4>>,<<8,4>>,<<9,5>>>>, <<<<7,4>>,<<8,5>>>> } ELSE
  IF p = <<7,3>> THEN {
      <<<<6,2>>,<<5,1>>,<<4,0>>,<<3,0>>>>, <<<<6,2>>,<<5,2>>,<<4,1>>,<<3,0>>,<<2,0>>>>,
      <<<<6,2>>,<<5,2>>,<<5,1>>,<<4,0>>,<<3,0>>>>,
      <<<<6,2>>,<<5,2>>,<<5,1>>,<<4,1>>,<<3,0>>,<<2,0>>>>, <<<<6,2>>,<<6,1>>,<<5,0>>>>,
      <<<<6,2>>,<<6,1>>,<<5,1>>,<<4,0>>>>, <<<<6,2>>,<<6,1>>,<<5,1>>,<<5,0>>>>,
      <<<<6,3>>,<<5,2>>,<<4,1>>,<<3,0>>,<<2,0>>>>,
      <<<<6,3>>,<<5,2>>,<<4,2>>,<<3,1>>,<<2,0>>,<<1,0>>>>,
      <<<<6,3>>,<<5,2>>,<<4,2>>,<<3,1>>,<<2,1>>,<<1,0>>>>,
      <<<<6,3>>,<<5,2>>,<<4,2>>,<<3,1>>,<<2,1>>,<<1,1>>,<<1,0>>>>,
      <<<<6,3>>,<<5,2>>,<<4,2>>,<<3,1>>,<<2,1>>,<<2,0>>,<<1,0>>>>,
      <<<<6,3>>,<<5,2>>,<<4,2>>,<<3,2>>,<<2,1>>,<<1,1>>,<<0,0>>>>,
      <<<<6,3>>,<<5,2>>,<<4,2>>,<<3,2>>,<<2,1>>,<<1,1>>,<<0,1>>>>,
      <<<<6,3>>,<<5,2>>,<<4,2>>,<<3,2>>,<<2,2>>,<<1,1>>,<<0,1>>>>,
      <<<<6,3>>,<<5,3>>,<<4,2>>,<<3,2>>,<<2,2>>,<<1,2>>,<<0,1>>>>,
      <<<<6,3>>,<<5,3>>,<<4,2>>,<<3,2>>,<<2,2>>,<<1,2>>,<<0,2>>>>,
      <<<<6,3>>,<<5,3>>,<<4,3>>,<<3,2>>,<<2,2>>,<<1,2>>,<<0,2>>>>,
      <<<<6,3>>,<<5,3>>,<<4,3>>,<<3,3>>,<<2,2>>,<<1,2>>,<<0,2>>>>,
      <<<<6,3>>,<<5,3>>,<<4,3>>,<<3,3>>,<<2,3>>,<<1,3>>,<<0,2>>>>,
      <<<<6,3>>,<<5,3>>,<<4,3>>,<<3,3>>,<<2,3>>,<<1,3>>,<<0,3>>>>,
      <<<<6,3>>,<<5,3>>,<<4,3>>,<<3,3>>,<<2,3>>,<<1,3>>,<<0,4>>>>,
      <<<<6,3>>,<<5,3>>,<<4,3>>,<<3,3>>,<<2,4>>,<<1,4>>,<<0,4>>>>,
      <<<<6,3>>,<<5,3>>,<<4,3>>,<<3,4>>,<<2,4>>,<<1,4>>,<<0,4>>>>,
      <<<<6,3>>,<<5,3>>,<<4,4>>,<<3,4>>,<<2,4>>,<<1,4>>,<<0,4>>>>,
      <<<<6,3>>,<<5,3>>,<<4,4>>,<<3,4>>,<<2,4>>,<<1,4>>,<<0,5>>>>,
      <<<<6,3>>,<<5,4>>,<<4,4>>,<<3,4>>,<<2,4>>,<<1,5>>,<<0,5>>>>,
      <<<<6,3>>,<<5,4>>,<<4,4>>,<<3,4>>,<<2,5>>,<<1,5>>,<<0,5>>>>,
      <<<<6,3>>,<<5,4>>,<<4,4>>,<<3,5>>,<<2,5>>,<<1,5>>>>, <<<<6,4>>,<<5,4>>,<<4,5>>>>,
      <<<<6,4>>,<<5,4>>,<<5,5>>,<<4,5>>>>, <<<<6,4>>,<<5,5>>>>, <<<<6,4>>,<<6,5>>,<<5,5>>>>,
      <<<<7,2>>,<<6,1>>,<<5,0>>>>, <<<<7,2>>,<<6,1>>,<<6,0>>>>, <<<<7,2>>,<<7,1>>,<<6,0>>>>,
      <<<<7,2>>,<<7,1>>,<<7,0>>>>, <<<<7,2>>,<<7,1>>,<<8,0>>>>, <<<<7,2>>,<<8,1>>,<<8,0>>>>,
      <<<<7,4>>,<<6,5>>>>, <<<<7,4>>,<<7,5>>>>, <<<<7,4>>,<<8,5>>>>, <<<<8,2>>,<<8,1>>,<<9,0>>>>,
      <<<<8,2>>,<<8,1>>,<<9,1>>,<<9,0>>>>, <<<<8,2>>,<<9,1>>>>, <<<<8,2>>,<<9,2>>,<<9,1>>>>,
      <<<<8,3>>,<<9,2>>>>, <<<<8,3>>,<<9,3>>>>, <<<<8,3>>,<<9,4>>>>, <<<<8,4>>,<<8,5>>,<<9,5>>>>,
      <<<<8,4>>,<<9,4>>,<<9,5>>>>, <<<<8,4>>,<<9,5>>>> } ELSE
  IF p = <<8,3>> THEN {
      <<<<7,2>>,<<6,1>>,<<5,0>>,<<4,0>>>>, <<<<7,2>>,<<6,2>>,<<5,1>>,<<4,0>>,<<3,0>>>>,
      <<<<7,2>>,<<6,2>>,<<6,1>>,<<5,0>>,<<4,0>>>>,
      <<<<7,2>>,<<6,2>>,<<6,1>>,<<5,1>>,<<4,0>>,<<3,0>>>>, <<<<7,2>>,<<7,1>>,<<6,0>>>>,
      <<<<7,2>>,<<7,1>>,<<6,1>>,<<5,0>>>>, <<<<7,2>>,<<7,1>>,<<6,1>>,<<6,0>>>>,
      <<<<7,3>>,<<6,2>>,<<5,1>>,<<4,0>>,<<3,0>>>>,
      <<<<7,3>>,<<6,2>>,<<5,2>>,<<4,1>>,<<3,0>>,<<2,0>>>>,
      <<<<7,3>>,<<6,2>>,<<5,2>>,<<4,1>>,<<3,1>>,<<2,0>>>>,
      <<<<7,3>>,<<6,2>>,<<5,2>>,<<4,1>>,<<3,1>>,<<2,1>>,<<2,0>>>>,
      <<<<7,3>>,<<6,2>>,<<5,2>>,<<4,1>>,<<3,1>>,<<3,0>>,<<2,0>>>>,
      <<<<7,3>>,<<6,2>>,<<5,2>>,<<4,2>>,<<3,1>>,<<2,1>>,<<1,0>>>>,
      <<<<7,3>>,<<6,2>>,<<5,2>>,<<4,2>>,<<3,1>>,<<2,1>>,<<1,1>>>>,
      <<<<7,3>>,<<6,2>>,<<5,2>>,<<4,2>>,<<3,2>>,<<2,1>>,<<1,1>>>>,
      <<<<7,3>>,<<6,3>>,<<5,2>>,<<4,2>>,<<3,2>>,<<2,2>>,<<1,1>>>>,
      <<<<7,3>>,<<6,3>>,<<5,2>>,<<4,2>>,<<3,2>>,<<2,2>>,<<1,2>>>>,
      <<<<7,3>>,<<6,3>>,<<5,3>>,<<4,2>>,<<3,2>>,<<2,2>>,<<1,2>>>>,
      <<<<7,3>>,<<6,3>>,<<5,3>>,<<4,3>>,<<3,2>>,<<2,2>>,<<1,2>>>>,
      <<<<7,3>>,<<6,3>>,<<5,3>>,<<4,3>>,<<3,3>>,<<2,3>>,<<1,2>>>>,
      <<<<7,3>>,<<6,3>>,<<5,3>>,<<4,3>>,<<3,3>>,<<2,3>>,<<1,3>>>>,
      <<<<7,3>>,<<6,3>>,<<5,3>>,<<4,3>>,<<3,3>>,<<2,3>>,<<1,4>>>>,
      <<<<7,3>>,<<6,3>>,<<5,3>>,<<4,3>>,<<3,4>>,<<2,4>>,<<1,4>>>>,
      <<<<7,3>>,<<6,3>>,<<5,3>>,<<4,4>>,<<3,4>>,<<2,4>>,<<1,4>>>>,
      <<<<7,3>>,<<6,3>>,<<5,4>>,<<4,4>>,<<3,4>>,<<2,4>>,<<1,4>>>>,
      <<<<7,3>>,<<6,3>>,<<5,4>>,<<4,4>>,<<3,4>>,<<2,4>>,<<1,5>>>>,
      <<<<7,3>>,<<6,4>>,<<5,4>>,<<4,4>>,<<3,4>>,<<2,5>>,<<1,5>>>>,
      <<<<7,3>>,<<6,4>>,<<5,4>>,<<4,4>>,<<3,5>>,<<2,5>>,<<1,5>>>>,
      <<<<7,3>>,<<6,4>>,<<5,4>>,<<4,5>>,<<3,5>>,<<2,5>>>>, <<<<7,4>>,<<6,4>>,<<5,5>>>>,
      <<<<7,4>>,<<6,4>>,<<6,5>>,<<5,5>>>>, <<<<7,4>>,<<6,5>>>>, <<<<7,4>>,<<7,5>>,<<6,5>>>>,
      <<<<8,2>>,<<7,1>>,<<6,0>>>>, <<<<8,2>>,<<7,1>>,<<7,0>>>>, <<<<8,2>>,<<8,1>>,<<7,0>>>>,
      <<<<8,2>>,<<8,1>>,<<8,0>>>>, <<<<8,2>>,<<8,1>>,<<9,0>>>>, <<<<8,2>>,<<9,1>>,<<9,0>>>>,
      <<<<8,4>>,<<7,5>>>>, <<<<8,4>>,<<8,5>>>>, <<<<8,4>>,<<9,5>>>>, <<<<9,2>>,<<9,1>>>>,
      <<<<9,3>>>>, <<<<9,4>>,<<9,5>>>> } ELSE
  IF p = <<1,4>> THEN {
      <<<<0,3>>,<<0,2>>>>, <<<<0,4>>>>, <<<<0,5>>>>, <<<<1,3>>,<<0,2>>,<<0,1>>,<<0,0>>>>,
      <<<<1,3>>,<<1,2>>,<<0,1>>,<<0,0>>>>, <<<<1,3>>,<<1,2>>,<<1,1>>,<<0,0>>>>,
      <<<<1,3>>,<<1,2>>,<<1,1>>,<<1,0>>>>, <<<<1,3>>,<<1,2>>,<<1,1>>,<<2,0>>>>,
      <<<<1,3>>,<<1,2>>,<<2,1>>,<<2,0>>>>, <<<<1,3>>,<<2,2>>,<<2,1>>,<<2,0>>>>,
      <<<<1,3>>,<<2,2>>,<<2,1>>,<<3,0>>>>, <<<<1,5>>>>, <<<<2,3>>,<<2,2>>,<<3,1>>,<<4,0>>>>,
      <<<<2,3>>,<<2,2>>,<<3,2>>,<<3,1>>,<<4,0>>>>, <<<<2,3>>,<<2,2>>,<<3,2>>,<<4,1>>,<<4,0>>>>,
      <<<<2,3>>,<<3,2>>,<<4,1>>,<<4,0>>,<<5,0>>>>, <<<<2,3>>,<<3,2>>,<<4,1>>,<<5,0>>>>,
      <<<<2,3>>,<<3,2>>,<<4,1>>,<<5,1>>,<<5,0>>>>,
      <<<<2,3>>,<<3,3>>,<<3,2>>,<<4,1>>,<<5,1>>,<<6,0>>>>,
      <<<<2,3>>,<<3,3>>,<<3,2>>,<<4,2>>,<<5,1>>,<<6,0>>,<<7,0>>>>,
      <<<<2,3>>,<<3,3>>,<<3,2>>,<<4,2>>,<<5,1>>,<<6,1>>,<<7,0>>>>,
      <<<<2,3>>,<<3,3>>,<<4,2>>,<<5,1>>,<<6,1>>,<<7,0>>>>,
      <<<<2,4>>,<<3,3>>,<<4,3>>,<<5,2>>,<<6,1>>,<<7,1>>>>,
      <<<<2,4>>,<<3,3>>,<<4,3>>,<<5,2>>,<<6,2>>,<<6,1>>,<<7,1>>>>,
      <<<<2,4>>,<<3,3>>,<<4,3>>,<<5,2>>,<<6,2>>,<<7,1>>>>,
      <<<<2,4>>,<<3,3>>,<<4,3>>,<<5,2>>,<<6,2>>,<<7,2>>,<<7,1>>>>,
      <<<<2,4>>,<<3,3>>,<<4,3>>,<<5,3>>,<<6,2>>,<<7,2>>,<<8,1>>>>,
      <<<<2,4>>,<<3,3>>,<<4,3>>,<<5,3>>,<<6,2>>,<<7,2>>,<<8,2>>>>,
      <<<<2,4>>,<<3,3>>,<<4,3>>,<<5,3>>,<<6,3>>,<<7,2>>,<<8,2>>>>,
      <<<<2,4>>,<<3,4>>,<<4,3>>,<<5,3>>,<<6,3>>,<<7,3>>,<<8,2>>>>,
      <<<<2,4>>,<<3,4>>,<<4,3>>,<<5,3>>,<<6,3>>,<<7,3>>,<<8,3>>>>,
      <<<<2,4>>,<<3,4>>,<<4,4>>,<<5,3>>,<<6,3>>,<<7,3>>,<<8,3>>>>,
      <<<<2,4>>,<<3,4>>,<<4,4>>,<<5,4>>,<<6,3>>,<<7,3>>,<<8,3>>>>,
      <<<<2,4>>,<<3,4>>,<<4,4>>,<<5,4>>,<<6,4>>,<<7,4>>,<<8,3>>>>,
      <<<<2,4>>,<<3,4>>,<<4,4>>,<<5,4>>,<<6,4>>,<<7,4>>,<<8,4>>>>,
      <<<<2,4>>,<<3,4>>,<<4,4>>,<<5,4>>,<<6,4>>,<<7,4>>,<<8,5>>>>,
      <<<<2,4>>,<<3,4>>,<<4,4>>,<<5,4>>,<<6,5>>,<<7,5>>,<<8,5>>>>,
      <<<<2,4>>,<<3,4>>,<<4,4>>,<<5,5>>,<<6,5>>,<<7,5>>,<<8,5>>>>,
      <<<<2,4>>,<<3,4>>,<<4,5>>,<<5,5>>,<<6,5>>,<<7,5>>,<<8,5>>>>,
      <<<<2,4>>,<<3,5>>,<<4,5>>,<<5,5>>,<<6,5>>>>, <<<<2,5>>,<<3,5>>>> } ELSE
  IF p = <<2,4>> THEN {
      <<<<1,3>>,<<0,2>>>>, <<<<1,3>>,<<0,3>>,<<0,2>>>>, <<<<1,3>>,<<1,2>>,<<0,1>>>>,
      <<<<1,3>>,<<1,2>>,<<0,2>>,<<0,1>>>>, <<<<1,4>>,<<0,3>>>>, <<<<1,4>>,<<0,4>>>>,
      <<<<1,4>>,<<0,5>>>>, <<<<1,5>>,<<0,5>>>>, <<<<2,3>>,<<1,2>>,<<1,1>>,<<0,0>>>>,
      <<<<2,3>>,<<1,2>>,<<1,1>>,<<1,0>>>>, <<<<2,3>>,<<2,2>>,<<1,1>>,<<1,0>>>>,
      <<<<2,3>>,<<2,2>>,<<2,1>>,<<1,0>>>>, <<<<2,3>>,<<2,2>>,<<2,1>>,<<2,0>>>>,
      <<<<2,3>>,<<2,2>>,<<2,1>>,<<3,0>>>>, <<<<2,3>>,<<2,2>>,<<3,1>>,<<3,0>>>>,
      <<<<2,3>>,<<3,2>>,<<3,1>>,<<3,0>>>>, <<<<2,3>>,<<3,2>>,<<3,1>>,<<4,0>>>>, <<<<2,5>>>>,
      <<<<3,3>>,<<3,2>>,<<4,1>>,<<5,0>>>>, <<<<3,3>>,<<3,2>>,<<4,2>>,<<4,1>>,<<5,0>>>>,
      <<<<3,3>>,<<3,2>>,<<4,2>>,<<5,1>>,<<5,0>>>>, <<<<3,3>>,<<4,2>>,<<5,1>>,<<5,0>>,<<6,0>>>>,
      <<<<3,3>>,<<4,2>>,<<5,1>>,<<6,0>>>>, <<<<3,3>>,<<4,2>>,<<5,1>>,<<6,1>>,<<6,0>>>>,
      <<<<3,3>>,<<4,3>>,<<4,2>>,<<5,1>>,<<6,1>>,<<7,0>>>>,
      <<<<3,3>>,<<4,3>>,<<4,2>>,<<5,2>>,<<6,1>>,<<7,0>>,<<8,0>>>>,
      <<<<3,3>>,<<4,3>>,<<4,2>>,<<5,2>>,<<6,1>>,<<7,1>>,<<8,0>>>>,
      <<<<3,3>>,<<4,3>>,<<5,2>>,<<6,1>>,<<7,1>>,<<8,0>>>>,
      <<<<3,4>>,<<4,3>>,<<5,3>>,<<6,2>>,<<7,1>>,<<8,1>>>>,
      <<<<3,4>>,<<4,3>>,<<5,3>>,<<6,2>>,<<7,2>>,<<7,1>>,<<8,1>>>>,
      <<<<3,4>>,<<4,3>>,<<5,3>>,<<6,2>>,<<7,2>>,<<8,1>>>>,
      <<<<3,4>>,<<4,3>>,<<5,3>>,<<6,2>>,<<7,2>>,<<8,2>>,<<8,1>>>>,
      <<<<3,4>>,<<4,3>>,<<5,3>>,<<6,3>>,<<7,2>>,<<8,2>>,<<9,1>>>>,
      <<<<3,4>>,<<4,3>>,<<5,3>>,<<6,3>>,<<7,2>>,<<8,2>>,<<9,2>>>>,
      <<<<3,4>>,<<4,3>>,<<5,3>>,<<6,3>>,<<7,3>>,<<8,2>>,<<9,2>>>>,
      <<<<3,4>>,<<4,4>>,<<5,3>>,<<6,3>>,<<7,3>>,<<8,3>>,<<9,2>>>>,
      <<<<3,4>>,<<4,4>>,<<5,3>>,<<6,3>>,<<7,3>>,<<8,3>>,<<9,3>>>>,
      <<<<3,4>>,<<4,4>>,<<5,4>>,<<6,3>>,<<7,3>>,<<8,3>>,<<9,3>>>>,
      <<<<3,4>>,<<4,4>>,<<5,4>>,<<6,4>>,<<7,3>>,<<8,3>>,<<9,3>>>>,
      <<<<3,4>>,<<4,4>>,<<5,4>>,<<6,4>>,<<7,4>>,<<8,4>>,<<9,3>>>>,
      <<<<3,4>>,<<4,4>>,<<5,4>>,<<6,4>>,<<7,4>>,<<8,4>>,<<9,4>>>>,
      <<<<3,4>>,<<4,4>>,<<5,4>>,<<6,4>>,<<7,4>>,<<8,4>>,<<9,5>>>>,
      <<<<3,4>>,<<4,4>>,<<5,4>>,<<6,4>>,<<7,5>>,<<8,5>>,<<9,5>>>>,
      <<<<3,4>>,<<4,4>>,<<5,4>>,<<6,5>>,<<7,5>>,<<8,5>>,<<9,5>>>>,
      <<<<3,4>>,<<4,4>>,<<5,5>>,<<6,5>>,<<7,5>>,<<8,5>>,<<9,5>>>>,
      <<<<3,4>>,<<4,5>>,<<5,5>>,<<6,5>>,<<7,5>>>>, <<<<3,5>>,<<4,5>>>> } ELSE
  IF p = <<3,4>> THEN {
      <<<<2,3>>,<<1,2>>,<<0,1>>,<<0,0>>>>, <<<<2,3>>,<<1,3>>,<<0,2>>>>,
      <<<<2,3>>,<<1,3>>,<<1,2>>,<<0,1>>>>, <<<<2,3>>,<<1,3>>,<<1,2>>,<<0,2>>>>,
      <<<<2,3>>,<<2,2>>,<<1,1>>,<<0,0>>>>, <<<<2,3>>,<<2,2>>,<<1,2>>,<<0,1>>,<<0,0>>>>,
      <<<<2,3>>,<<2,2>>,<<1,2>>,<<1,1>>,<<0,0>>>>, <<<<2,4>>,<<1,3>>,<<0,2>>>>,
      <<<<2,4>>,<<1,3>>,<<0,3>>>>, <<<<2,4>>,<<1,4>>,<<0,3>>>>, <<<<2,4>>,<<1,4>>,<<0,4>>>>,
      <<<<2,4>>,<<1,4>>,<<0,5>>>>, <<<<2,4>>,<<1,5>>,<<0,5>>>>, <<<<2,5>>,<<1,5>>>>,
      <<<<3,3>>,<<2,2>>,<<2,1>>,<<1,0>>>>, <<<<3,3>>,<<2,2>>,<<2,1>>,<<2,0>>>>,
      <<<<3,3>>,<<3,2>>,<<2,1>>,<<2,0>>>>, <<<<3,3>>,<<3,2>>,<<3,1>>,<<2,0>>>>,
      <<<<3,3>>,<<3,2>>,<<3,1>>,<<3,0>>>>, <<<<3,3>>,<<3,2>>,<<3,1>>,<<4,0>>>>,
      <<<<3,3>>,<<3,2>>,<<4,1>>,<<4,0>>>>, <<<<3,3>>,<<4,2>>,<<4,1>>,<<4,0>>>>,
      <<<<3,3>>,<<4,2>>,<<4,1>>,<<5,0>>>>, <<<<3,5>>>>, <<<<4,3>>,<<4,2>>,<<5,1>>,<<6,0>>>>,
      <<<<4,3>>,<<4,2>>,<<5,2>>,<<5,1>>,<<6,0>>>>, <<<<4,3>>,<<4,2>>,<<5,2>>,<<6,1>>,<<6,0>>>>,
      <<<<4,3>>,<<5,2>>,<<6,1>>,<<6,0>>,<<7,0>>>>, <<<<4,3>>,<<5,2>>,<<6,1>>,<<7,0>>>>,
      <<<<4,3>>,<<5,2>>,<<6,1>>,<<7,1>>,<<7,0>>>>,
      <<<<4,3>>,<<5,3>>,<<5,2>>,<<6,1>>,<<7,1>>,<<8,0>>>>,
      <<<<4,3>>,<<5,3>>,<<5,2>>,<<6,2>>,<<7,1>>,<<8,0>>,<<9,0>>>>,
      <<<<4,3>>,<<5,3>>,<<5,2>>,<<6,2>>,<<7,1>>,<<8,1>>,<<9,0>>>>,
      <<<<4,3>>,<<5,3>>,<<6,2>>,<<7,1>>,<<8,1>>,<<9,0>>>>,
      <<<<4,4>>,<<5,3>>,<<6,3>>,<<7,2>>,<<8,1>>,<<9,1>>>>,
      <<<<4,4>>,<<5,3>>,<<6,3>>,<<7,2>>,<<8,2>>,<<8,1>>,<<9,1>>>>,
      <<<<4,4>>,<<5,3>>,<<6,3>>,<<7,2>>,<<8,2>>,<<9,1>>>>,
      <<<<4,4>>,<<5,3>>,<<6,3>>,<<7,2>>,<<8,2>>,<<9,2>>,<<9,1>>>>,
      <<<<4,4>>,<<5,3>>,<<6,3>>,<<7,3>>,<<8,2>>,<<9,2>>>>,
      <<<<4,4>>,<<5,3>>,<<6,3>>,<<7,3>>,<<8,3>>,<<9,2>>>>,
      <<<<4,4>>,<<5,4>>,<<6,3>>,<<7,3>>,<<8,3>>,<<9,3>>>>,
      <<<<4,4>>,<<5,4>>,<<6,4>>,<<7,3>>,<<8,3>>,<<9,3>>>>,
      <<<<4,4>>,<<5,4>>,<<6,4>>,<<7,4>>,<<8,3>>,<<9,3>>>>,
      <<<<4,4>>,<<5,4>>,<<6,4>>,<<7,4>>,<<8,4>>,<<9,4>>>>,
      <<<<4,4>>,<<5,4>>,<<6,4>>,<<7,4>>,<<8,5>>,<<9,5>>>>,
      <<<<4,4>>,<<5,4>>,<<6,4>>,<<7,5>>,<<8,5>>,<<9,5>>>>,
      <<<<4,4>>,<<5,4>>,<<6,5>>,<<7,5>>,<<8,5>>,<<9,5>>>>,
      <<<<4,4>>,<<5,5>>,<<6,5>>,<<7,5>>,<<8,5>>>>, <<<<4,5>>,<<5,5>>>> } ELSE
  IF p = <<4,4>> THEN {
      <<<<3,3>>,<<2,2>>,<<1,1>>,<<0,0>>>>, <<<<3,3>>,<<2,2>>,<<1,1>>,<<0,1>>,<<0,0>>>>,
      <<<<3,3>>,<<2,2>>,<<1,1>>,<<1,0>>,<<0,0>>>>, <<<<3,3>>,<<2,3>>,<<1,2>>,<<0,1>>>>,
      <<<<3,3>>,<<2,3>>,<<2,2>>,<<1,1>>,<<0,1>>>>, <<<<3,3>>,<<2,3>>,<<2,2>>,<<1,2>>,<<0,1>>>>,
      <<<<3,3>>,<<3,2>>,<<2,1>>,<<1,0>>>>, <<<<3,3>>,<<3,2>>,<<2,2>>,<<1,1>>,<<1,0>>>>,
      <<<<3,3>>,<<3,2>>,<<2,2>>,<<2,1>>,<<1,0>>>>, <<<<3,4>>,<<2,3>>,<<1,2>>,<<0,1>>>>,
      <<<<3,4>>,<<2,3>>,<<1,3>>,<<0,2>>>>, <<<<3,4>>,<<2,3>>,<<1,3>>,<<0,3>>>>,
      <<<<3,4>>,<<2,4>>,<<1,3>>,<<0,3>>>>, <<<<3,4>>,<<2,4>>,<<1,4>>,<<0,3>>>>,
      <<<<3,4>>,<<2,4>>,<<1,4>>,<<0,4>>>>, <<<<3,4>>,<<2,4>>,<<1,4>>,<<0,5>>>>,
      <<<<3,4>>,<<2,4>>,<<1,5>>,<<0,5>>>>, <<<<3,4>>,<<2,5>>,<<1,5>>,<<0,5>>>>, <<<<3,5>>,<<2,5>>>>,
      <<<<4,3>>,<<3,2>>,<<3,1>>,<<2,0>>>>, <<<<4,3>>,<<3,2>>,<<3,1>>,<<3,0>>>>,
      <<<<4,3>>,<<4,2>>,<<3,1>>,<<3,0>>>>, <<<<4,3>>,<<4,2>>,<<4,1>>,<<3,0>>>>,
      <<<<4,3>>,<<4,2>>,<<4,1>>,<<4,0>>>>, <<<<4,3>>,<<4,2>>,<<4,1>>,<<5,0>>>>,
      <<<<4,3>>,<<4,2>>,<<5,1>>,<<5,0>>>>, <<<<4,3>>,<<5,2>>,<<5,1>>,<<5,0>>>>,
      <<<<4,3>>,<<5,2>>,<<5,1>>,<<6,0>>>>, <<<<4,5>>>>, <<<<5,3>>,<<5,2>>,<<6,1>>,<<7,0>>>>,
      <<<<5,3>>,<<5,2>>,<<6,2>>,<<6,1>>,<<7,0>>>>, <<<<5,3>>,<<5,2>>,<<6,2>>,<<7,1>>,<<7,0>>>>,
      <<<<5,3>>,<<6,2>>,<<7,1>>,<<7,0>>,<<8,0>>>>, <<<<5,3>>,<<6,2>>,<<7,1>>,<<8,0>>>>,
      <<<<5,3>>,<<6,2>>,<<7,1>>,<<8,1>>,<<8,0>>>>,
      <<<<5,3>>,<<6,3>>,<<6,2>>,<<7,1>>,<<8,1>>,<<9,0>>>>,
      <<<<5,3>>,<<6,3>>,<<6,2>>,<<7,2>>,<<8,1>>,<<9,0>>>>,
      <<<<5,3>>,<<6,3>>,<<6,2>>,<<7,2>>,<<8,1>>,<<9,1>>>>,
      <<<<5,3>>,<<6,3>>,<<7,2>>,<<8,1>>,<<9,1>>>>, <<<<5,4>>,<<6,3>>,<<7,3>>,<<8,2>>,<<9,1>>>>,
      <<<<5,4>>,<<6,3>>,<<7,3>>,<<8,2>>,<<9,2>>,<<9,1>>>>,
      <<<<5,4>>,<<6,3>>,<<7,3>>,<<8,3>>,<<9,2>>>>, <<<<5,4>>,<<6,3>>,<<7,3>>,<<8,3>>,<<9,3>>>>,
      <<<<5,4>>,<<6,4>>,<<7,3>>,<<8,3>>,<<9,3>>>>, <<<<5,4>>,<<6,4>>,<<7,4>>,<<8,3>>,<<9,3>>>>,
      <<<<5,4>>,<<6,4>>,<<7,4>>,<<8,4>>,<<9,3>>>>, <<<<5,4>>,<<6,4>>,<<7,4>>,<<8,4>>,<<9,4>>>>,
      <<<<5,4>>,<<6,4>>,<<7,4>>,<<8,4>>,<<9,5>>>>, <<<<5,4>>,<<6,4>>,<<7,4>>,<<8,5>>,<<9,5>>>>,
      <<<<5,4>>,<<6,4>>,<<7,5>>,<<8,5>>,<<9,5>>>>, <<<<5,4>>,<<6,5>>,<<7,5>>,<<8,5>>,<<9,5>>>>,
      <<<<5,5>>,<<6,5>>>> } ELSE
  IF p = <<5,4>> THEN {
      <<<<4,3>>,<<3,2>>,<<2,1>>,<<1,0>>>>, <<<<4,3>>,<<3,2>>,<<2,1>>,<<1,1>>,<<1,0>>>>,
      <<<<4,3>>,<<3,2>>,<<2,1>>,<<2,0>>,<<1,0>>>>, <<<<4,3>>,<<3,3>>,<<2,2>>,<<1,1>>,<<0,1>>>>,
      <<<<4,3>>,<<3,3>>,<<3,2>>,<<2,1>>,<<1,1>>,<<0,0>>>>,
      <<<<4,3>>,<<3,3>>,<<3,2>>,<<2,2>>,<<1,1>>,<<0,0>>>>,
      <<<<4,3>>,<<3,3>>,<<3,2>>,<<2,2>>,<<1,1>>,<<0,1>>>>, <<<<4,3>>,<<4,2>>,<<3,1>>,<<2,0>>>>,
      <<<<4,3>>,<<4,2>>,<<3,2>>,<<2,1>>,<<2,0>>>>, <<<<4,3>>,<<4,2>>,<<3,2>>,<<3,1>>,<<2,0>>>>,
      <<<<4,4>>,<<3,3>>,<<2,2>>,<<1,1>>,<<0,1>>>>, <<<<4,4>>,<<3,3>>,<<2,3>>,<<1,2>>,<<0,1>>>>,
      <<<<4,4>>,<<3,3>>,<<2,3>>,<<1,2>>,<<0,2>>,<<0,1>>>>,
      <<<<4,4>>,<<3,3>>,<<2,3>>,<<1,3>>,<<0,2>>>>, <<<<4,4>>,<<3,3>>,<<2,3>>,<<1,3>>,<<0,3>>>>,
      <<<<4,4>>,<<3,4>>,<<2,3>>,<<1,3>>,<<0,3>>>>, <<<<4,4>>,<<3,4>>,<<2,4>>,<<1,3>>,<<0,3>>>>,
      <<<<4,4>>,<<3,4>>,<<2,4>>,<<1,4>>,<<0,3>>>>, <<<<4,4>>,<<3,4>>,<<2,4>>,<<1,4>>,<<0,4>>>>,
      <<<<4,4>>,<<3,4>>,<<2,4>>,<<1,4>>,<<0,5>>>>, <<<<4,4>>,<<3,4>>,<<2,4>>,<<1,5>>,<<0,5>>>>,
      <<<<4,4>>,<<3,4>>,<<2,5>>,<<1,5>>,<<0,5>>>>, <<<<4,4>>,<<3,5>>,<<2,5>>,<<1,5>>,<<0,5>>>>,
      <<<<4,5>>,<<3,5>>>>, <<<<5,3>>,<<4,2>>,<<3,1>>,<<2,0>>>>, <<<<5,3>>,<<4,2>>,<<4,1>>,<<3,0>>>>,
      <<<<5,3>>,<<4,2>>,<<4,1>>,<<4,0>>>>, <<<<5,3>>,<<5,2>>,<<4,1>>,<<4,0>>>>,
      <<<<5,3>>,<<5,2>>,<<5,1>>,<<4,0>>>>, <<<<5,3>>,<<5,2>>,<<5,1>>,<<5,0>>>>,
      <<<<5,3>>,<<5,2>>,<<5,1>>,<<6,0>>>>, <<<<5,3>>,<<5,2>>,<<6,1>>,<<6,0>>>>,
      <<<<5,3>>,<<6,2>>,<<6,1>>,<<6,0>>>>, <<<<5,3>>,<<6,2>>,<<6,1>>,<<7,0>>>>, <<<<5,5>>>>,
      <<<<6,3>>,<<6,2>>,<<7,1>>,<<8,0>>>>, <<<<6,3>>,<<6,2>>,<<7,2>>,<<7,1>>,<<8,0>>>>,
      <<<<6,3>>,<<6,2>>,<<7,2>>,<<8,1>>,<<8,0>>>>, <<<<6,3>>,<<7,2>>,<<8,1>>,<<8,0>>,<<9,0>>>>,
      <<<<6,3>>,<<7,2>>,<<8,1>>,<<9,0>>>>, <<<<6,3>>,<<7,2>>,<<8,1>>,<<9,1>>,<<9,0>>>>,
      <<<<6,3>>,<<7,3>>,<<7,2>>,<<8,1>>,<<9,1>>>>, <<<<6,3>>,<<7,3>>,<<7,2>>,<<8,2>>,<<9,1>>>>,
      <<<<6,3>>,<<7,3>>,<<8,2>>,<<9,1>>>>, <<<<6,4>>,<<7,3>>,<<8,3>>,<<9,2>>>>,
      <<<<6,4>>,<<7,3>>,<<8,3>>,<<9,3>>>>, <<<<6,4>>,<<7,4>>,<<8,3>>,<<9,3>>>>,
      <<<<6,4>>,<<7,4>>,<<8,4>>,<<9,3>>>>, <<<<6,4>>,<<7,4>>,<<8,4>>,<<9,4>>>>,
      <<<<6,4>>,<<7,4>>,<<8,4>>,<<9,5>>>>, <<<<6,4>>,<<7,4>>,<<8,5>>,<<9,5>>>>,
      <<<<6,4>>,<<7,5>>,<<8,5>>,<<9,5>>>>, <<<<6,5>>,<<7,5>>>> } ELSE
  IF p = <<6,4>> THEN {
      <<<<5,3>>,<<4,2>>,<<3,1>>,<<2,0>>>>, <<<<5,3>>,<<4,2>>,<<3,1>>,<<2,1>>,<<2,0>>>>,
      <<<<5,3>>,<<4,2>>,<<3,1>>,<<3,0>>,<<2,0>>>>,
      <<<<5,3>>,<<4,3>>,<<3,2>>,<<2,1>>,<<1,1>>,<<0,0>>>>,
      <<<<5,3>>,<<4,3>>,<<4,2>>,<<3,1>>,<<2,1>>,<<1,0>>>>,
      <<<<5,3>>,<<4,3>>,<<4,2>>,<<3,2>>,<<2,1>>,<<1,0>>,<<0,0>>>>,
      <<<<5,3>>,<<4,3>>,<<4,2>>,<<3,2>>,<<2,1>>,<<1,1>>,<<0,0>>>>,
      <<<<5,3>>,<<5,2>>,<<4,1>>,<<3,0>>>>, <<<<5,3>>,<<5,2>>,<<4,2>>,<<3,1>>,<<3,0>>>>,
      <<<<5,3>>,<<5,2>>,<<4,2>>,<<4,1>>,<<3,0>>>>,
      <<<<5,4>>,<<4,3>>,<<3,2>>,<<2,1>>,<<1,1>>,<<0,0>>>>,
      <<<<5,4>>,<<4,3>>,<<3,3>>,<<2,2>>,<<1,1>>,<<0,1>>>>,
      <<<<5,4>>,<<4,3>>,<<3,3>>,<<2,2>>,<<1,2>>,<<0,1>>>>,
      <<<<5,4>>,<<4,3>>,<<3,3>>,<<2,2>>,<<1,2>>,<<0,2>>,<<0,1>>>>,
      <<<<5,4>>,<<4,3>>,<<3,3>>,<<2,2>>,<<1,2>>,<<1,1>>,<<0,1>>>>,
      <<<<5,4>>,<<4,3>>,<<3,3>>,<<2,3>>,<<1,2>>,<<0,2>>>>,
      <<<<5,4>>,<<4,3>>,<<3,3>>,<<2,3>>,<<1,3>>,<<0,2>>>>,
      <<<<5,4>>,<<4,4>>,<<3,3>>,<<2,3>>,<<1,3>>,<<0,3>>>>,
      <<<<5,4>>,<<4,4>>,<<3,4>>,<<2,3>>,<<1,3>>,<<0,3>>>>,
      <<<<5,4>>,<<4,4>>,<<3,4>>,<<2,4>>,<<1,3>>,<<0,3>>>>,
      <<<<5,4>>,<<4,4>>,<<3,4>>,<<2,4>>,<<1,4>>,<<0,4>>>>,
      <<<<5,4>>,<<4,4>>,<<3,4>>,<<2,4>>,<<1,5>>,<<0,5>>>>,
      <<<<5,4>>,<<4,4>>,<<3,4>>,<<2,5>>,<<1,5>>,<<0,5>>>>,
      <<<<5,4>>,<<4,4>>,<<3,5>>,<<2,5>>,<<1,5>>,<<0,5>>>>,
      <<<<5,4>>,<<4,5>>,<<3,5>>,<<2,5>>,<<1,5>>>>, <<<<5,5>>,<<4,5>>>>,
      <<<<6,3>>,<<5,2>>,<<4,1>>,<<3,0>>>>, <<<<6,3>>,<<5,2>>,<<5,1>>,<<4,0>>>>,
      <<<<6,3>>,<<5,2>>,<<5,1>>,<<5,0>>>>, <<<<6,3>>,<<6,2>>,<<5,1>>,<<5,0>>>>,
      <<<<6,3>>,<<6,2>>,<<6,1>>,<<5,0>>>>, <<<<6,3>>,<<6,2>>,<<6,1>>,<<6,0>>>>,
      <<<<6,3>>,<<6,2>>,<<6,1>>,<<7,0>>>>, <<<<6,3>>,<<6,2>>,<<7,1>>,<<7,0>>>>,
      <<<<6,3>>,<<7,2>>,<<7,1>>,<<7,0>>>>, <<<<6,3>>,<<7,2>>,<<7,1>>,<<8,0>>>>, <<<<6,5>>>>,
      <<<<7,3>>,<<7,2>>,<<8,1>>,<<9,0>>>>, <<<<7,3>>,<<7,2>>,<<8,2>>,<<8,1>>,<<9,0>>>>,
      <<<<7,3>>,<<7,2>>,<<8,2>>,<<9,1>>,<<9,0>>>>, <<<<7,3>>,<<8,2>>,<<9,1>>,<<9,0>>>>,
      <<<<7,3>>,<<8,3>>,<<8,2>>,<<9,1>>>>, <<<<7,3>>,<<8,3>>,<<8,2>>,<<9,2>>>>,
      <<<<7,3>>,<<8,3>>,<<9,2>>>>, <<<<7,4>>,<<8,3>>,<<9,3>>>>, <<<<7,4>>,<<8,4>>,<<9,3>>>>,
      <<<<7,4>>,<<8,4>>,<<9,4>>>>, <<<<7,4>>,<<8,4>>,<<9,5>>>>, <<<<7,4>>,<<8,5>>,<<9,5>>>>,
      <<<<7,5>>,<<8,5>>>> } ELSE
  IF p = <<7,4>> THEN {
      <<<<6,3>>,<<5,2>>,<<4,1>>,<<3,0>>>>, <<<<6,3>>,<<5,2>>,<<4,1>>,<<3,1>>,<<3,0>>>>,
      <<<<6,3>>,<<5,2>>,<<4,1>>,<<4,0>>,<<3,0>>>>,
      <<<<6,3>>,<<5,3>>,<<4,2>>,<<3,1>>,<<2,1>>,<<1,0>>>>,
      <<<<6,3>>,<<5,3>>,<<5,2>>,<<4,1>>,<<3,1>>,<<2,0>>>>,
      <<<<6,3>>,<<5,3>>,<<5,2>>,<<4,2>>,<<3,1>>,<<2,0>>,<<1,0>>>>,
      <<<<6,3>>,<<5,3>>,<<5,2>>,<<4,2>>,<<3,1>>,<<2,1>>,<<1,0>>>>,
      <<<<6,3>>,<<6,2>>,<<5,1>>,<<4,0>>>>, <<<<6,3>>,<<6,2>>,<<5,2>>,<<4,1>>,<<4,0>>>>,
      <<<<6,3>>,<<6,2>>,<<5,2>>,<<5,1>>,<<4,0>>>>,
      <<<<6,4>>,<<5,3>>,<<4,2>>,<<3,1>>,<<2,1>>,<<1,0>>>>,
      <<<<6,4>>,<<5,3>>,<<4,3>>,<<3,2>>,<<2,1>>,<<1,1>>>>,
      <<<<6,4>>,<<5,3>>,<<4,3>>,<<3,2>>,<<2,2>>,<<1,1>>>>,
      <<<<6,4>>,<<5,3>>,<<4,3>>,<<3,2>>,<<2,2>>,<<1,2>>,<<1,1>>>>,
      <<<<6,4>>,<<5,3>>,<<4,3>>,<<3,2>>,<<2,2>>,<<2,1>>,<<1,1>>>>,
      <<<<6,4>>,<<5,3>>,<<4,3>>,<<3,3>>,<<2,2>>,<<1,2>>,<<0,1>>>>,
      <<<<6,4>>,<<5,3>>,<<4,3>>,<<3,3>>,<<2,2>>,<<1,2>>,<<0,2>>>>,
      <<<<6,4>>,<<5,3>>,<<4,3>>,<<3,3>>,<<2,3>>,<<1,2>>,<<0,2>>>>,
      <<<<6,4>>,<<5,4>>,<<4,3>>,<<3,3>>,<<2,3>>,<<1,3>>,<<0,2>>>>,
      <<<<6,4>>,<<5,4>>,<<4,3>>,<<3,3>>,<<2,3>>,<<1,3>>,<<0,3>>>>,
      <<<<6,4>>,<<5,4>>,<<4,4>>,<<3,3>>,<<2,3>>,<<1,3>>,<<0,3>>>>,
      <<<<6,4>>,<<5,4>>,<<4,4>>,<<3,4>>,<<2,3>>,<<1,3>>,<<0,3>>>>,
      <<<<6,4>>,<<5,4>>,<<4,4>>,<<3,4>>,<<2,4>>,<<1,4>>,<<0,3>>>>,
      <<<<6,4>>,<<5,4>>,<<4,4>>,<<3,4>>,<<2,4>>,<<1,4>>,<<0,4>>>>,
      <<<<6,4>>,<<5,4>>,<<4,4>>,<<3,4>>,<<2,4>>,<<1,4>>,<<0,5>>>>,
      <<<<6,4>>,<<5,4>>,<<4,4>>,<<3,4>>,<<2,5>>,<<1,5>>,<<0,5>>>>,
      <<<<6,4>>,<<5,4>>,<<4,4>>,<<3,5>>,<<2,5>>,<<1,5>>,<<0,5>>>>,
      <<<<6,4>>,<<5,4>>,<<4,5>>,<<3,5>>,<<2,5>>,<<1,5>>,<<0,5>>>>,
      <<<<6,4>>,<<5,5>>,<<4,5>>,<<3,5>>,<<2,5>>>>, <<<<6,5>>,<<5,5>>>>,
      <<<<7,3>>,<<6,2>>,<<5,1>>,<<4,0>>>>, <<<<7,3>>,<<6,2>>,<<6,1>>,<<5,0>>>>,
      <<<<7,3>>,<<6,2>>,<<6,1>>,<<6,0>>>>, <<<<7,3>>,<<7,2>>,<<6,1>>,<<6,0>>>>,
      <<<<7,3>>,<<7,2>>,<<7,1>>,<<6,0>>>>, <<<<7,3>>,<<7,2>>,<<7,1>>,<<7,0>>>>,
      <<<<7,3>>,<<7,2>>,<<7,1>>,<<8,0>>>>, <<<<7,3>>,<<7,2>>,<<8,1>>,<<8,0>>>>,
      <<<<7,3>>,<<8,2>>,<<8,1>>,<<8,0>>>>, <<<<7,3>>,<<8,2>>,<<8,1>>,<<9,0>>>>, <<<<7,5>>>>,
      <<<<8,3>>,<<8,2>>,<<9,1>>>>, <<<<8,3>>,<<8,2>>,<<9,2>>,<<9,1>>>>, <<<<8,3>>,<<9,2>>>>,
      <<<<8,3>>,<<9,3>>,<<9,2>>>>, <<<<8,4>>,<<9,3>>>>, <<<<8,4>>,<<9,4>>>>, <<<<8,4>>,<<9,5>>>>,
      <<<<8,5>>,<<9,5>>>> } ELSE
  IF p = <<8,4>> THEN {
      <<<<7,3>>,<<6,2>>,<<5,1>>,<<4,0>>>>, <<<<7,3>>,<<6,2>>,<<5,1>>,<<4,1>>,<<4,0>>>>,
      <<<<7,3>>,<<6,2>>,<<5,1>>,<<5,0>>,<<4,0>>>>,
      <<<<7,3>>,<<6,3>>,<<5,2>>,<<4,1>>,<<3,1>>,<<2,0>>>>,
      <<<<7,3>>,<<6,3>>,<<6,2>>,<<5,1>>,<<4,1>>,<<3,0>>>>,
      <<<<7,3>>,<<6,3>>,<<6,2>>,<<5,2>>,<<4,1>>,<<3,0>>,<<2,0>>>>,
      <<<<7,3>>,<<6,3>>,<<6,2>>,<<5,2>>,<<4,1>>,<<3,1>>,<<2,0>>>>,
      <<<<7,3>>,<<7,2>>,<<6,1>>,<<5,0>>>>, <<<<7,3>>,<<7,2>>,<<6,2>>,<<5,1>>,<<5,0>>>>,
      <<<<7,3>>,<<7,2>>,<<6,2>>,<<6,1>>,<<5,0>>>>,
      <<<<7,4>>,<<6,3>>,<<5,2>>,<<4,1>>,<<3,1>>,<<2,0>>>>,
      <<<<7,4>>,<<6,3>>,<<5,3>>,<<4,2>>,<<3,1>>,<<2,1>>>>,
      <<<<7,4>>,<<6,3>>,<<5,3>>,<<4,2>>,<<3,2>>,<<2,1>>>>,
      <<<<7,4>>,<<6,3>>,<<5,3>>,<<4,2>>,<<3,2>>,<<2,2>>,<<2,1>>>>,
      <<<<7,4>>,<<6,3>>,<<5,3>>,<<4,2>>,<<3,2>>,<<3,1>>,<<2,1>>>>,
      <<<<7,4>>,<<6,3>>,<<5,3>>,<<4,3>>,<<3,2>>,<<2,2>>,<<1,1>>>>,
      <<<<7,4>>,<<6,3>>,<<5,3>>,<<4,3>>,<<3,2>>,<<2,2>>,<<1,2>>>>,
      <<<<7,4>>,<<6,3>>,<<5,3>>,<<4,3>>,<<3,3>>,<<2,2>>,<<1,2>>>>,
      <<<<7,4>>,<<6,4>>,<<5,3>>,<<4,3>>,<<3,3>>,<<2,3>>,<<1,2>>>>,
      <<<<7,4>>,<<6,4>>,<<5,3>>,<<4,3>>,<<3,3>>,<<2,3>>,<<1,3>>>>,
      <<<<7,4>>,<<6,4>>,<<5,4>>,<<4,3>>,<<3,3>>,<<2,3>>,<<1,3>>>>,
      <<<<7,4>>,<<6,4>>,<<5,4>>,<<4,4>>,<<3,3>>,<<2,3>>,<<1,3>>>>,
      <<<<7,4>>,<<6,4>>,<<5,4>>,<<4,4>>,<<3,4>>,<<2,4>>,<<1,3>>>>,
      <<<<7,4>>,<<6,4>>,<<5,4>>,<<4,4>>,<<3,4>>,<<2,4>>,<<1,4>>>>,
      <<<<7,4>>,<<6,4>>,<<5,4>>,<<4,4>>,<<3,4>>,<<2,4>>,<<1,5>>>>,
      <<<<7,4>>,<<6,4>>,<<5,4>>,<<4,4>>,<<3,5>>,<<2,5>>,<<1,5>>>>,
      <<<<7,4>>,<<6,4>>,<<5,4>>,<<4,5>>,<<3,5>>,<<2,5>>,<<1,5>>>>,
      <<<<7,4>>,<<6,4>>,<<5,5>>,<<4,5>>,<<3,5>>,<<2,5>>,<<1,5>>>>,
      <<<<7,4>>,<<6,5>>,<<5,5>>,<<4,5>>,<<3,5>>>>, <<<<7,5>>,<<6,5>>>>,
      <<<<8,3>>,<<7,2>>,<<6,1>>,<<5,0>>>>, <<<<8,3>>,<<7,2>>,<<7,1>>,<<6,0>>>>,
      <<<<8,3>>,<<7,2>>,<<7,1>>,<<7,0>>>>, <<<<8,3>>,<<8,2>>,<<7,1>>,<<7,0>>>>,
      <<<<8,3>>,<<8,2>>,<<8,1>>,<<7,0>>>>, <<<<8,3>>,<<8,2>>,<<8,1>>,<<8,0>>>>,
      <<<<8,3>>,<<8,2>>,<<8,1>>,<<9,0>>>>, <<<<8,3>>,<<8,2>>,<<9,1>>,<<9,0>>>>,
      <<<<8,3>>,<<9,2>>,<<9,1>>,<<9,0>>>>, <<<<8,5>>>>, <<<<9,3>>,<<9,2>>>>, <<<<9,4>>>>, <<<<9,5>>>> } ELSE
  {}

\* the sample r[k] is reached: it is on the grid and no earlier sample of the
\* ray left the grid or hit a wall, a secret wall or a closed door
RayReaches(map, r, k) ==
  /\ InBounds(r[k][1], r[k][2])
  /\ \A j \in 1 .. k - 1 : InBounds(r[j][1], r[j][2]) /\ ~Opaque(map[r[j]])

\* the cells one call of updateVisibility marks
LitCells(map, px, py) ==
  {<<px, py>>} \cup
  UNION { {r[k] : k \in {i \in 1 .. Len(r) : RayReaches(map, r, i)}} :
          r \in RaysFrom(<<px, py>>) }

\* updateVisibility() with explored cleared and rebuilt as visibility is: the
\* fault C7 excludes
UpdateVisibilityForgetting(g) ==
  LET Mark(lit) == [g EXCEPT !.visibility = lit, !.explored = lit]
  IN Mark(LitCells(g.map, g.px, g.py))

\* updateVisibility(): visibility is cleared and rebuilt, explored only grows
UpdateVisibility(g) ==
  LET Mark(lit) == [g EXCEPT !.visibility = lit, !.explored = @ \cup lit]
  IN Mark(LitCells(g.map, g.px, g.py))

-----------------------------------------------------------------------------
(* Pathfinding *)

NoPath == [found |-> FALSE, path |-> <<>>]

RECURSIVE PathBack(_, _, _, _)
\* the reconstruction loop of _bfsPath: follow prev from the target to the source
PathBack(prev, src, c, acc) ==
  IF c = src THEN acc ELSE PathBack(prev, src, prev[c], <<c>> \o acc)

RECURSIVE BfsScan(_, _, _, _, _, _, _)
\* the for (const d of dirs) loop of _bfsPath for the dequeued cell cur
BfsScan(map, tgt, cur, i, queue, visited, prev) ==
  IF i > Len(Dirs8)
  THEN [done |-> FALSE, queue |-> queue, visited |-> visited, prev |-> prev]
  ELSE
    LET n == <<cur[1] + Dirs8[i][1], cur[2] + Dirs8[i][2]>> IN
    IF ~InBounds(n[1], n[2]) \/ n \in visited
    THEN BfsScan(map, tgt, cur, i + 1, queue, visited, prev)
    ELSE IF ~(IsWalkable(map, n[1], n[2]) \/ map[n] = "DoorClosed") /\ n # tgt
    THEN BfsScan(map, tgt, cur, i + 1, queue, visited, prev)
    ELSE IF n = tgt
    THEN [done |-> TRUE, queue |-> queue, visited |-> visited \cup {n},
          prev |-> [prev EXCEPT ![n] = cur]]
    ELSE BfsScan(map, tgt, cur, i + 1, Append(queue, n), visited \cup {n},
                 [prev EXCEPT ![n] = cur])

RECURSIVE BfsLoop(_, _, _, _, _, _)
\* the while (queue.length > 0) loop of _bfsPath
BfsLoop(map, src, tgt, queue, visited, prev) ==
  IF queue = <<>> THEN NoPath
  ELSE
    LET After(r) ==
          IF r.done
          THEN [found |-> TRUE, path |-> PathBack(r.prev, src, tgt, <<>>)]
          ELSE BfsLoop(map, src, tgt, r.queue, r.visited, r.prev)
    IN After(BfsScan(map, tgt, Head(queue), 1, Tail(queue), visited, prev))

\* _bfsPath(sx, sy, tx, ty): [] when source = target, null when no path
BfsPath(map, sx, sy, tx, ty) ==
  IF sx = tx /\ sy = ty THEN [found |-> TRUE, path |-> <<>>]
  ELSE BfsLoop(map, <<sx, sy>>, <<tx, ty>>, << <<sx, sy>> >>, {<<sx, sy>>},
               [c \in Cells |-> NoCell])

RECURSIVE FrontierScan(_, _, _, _, _, _)
\* the for (const d of dirs) loop of _findNearestUnexplored
FrontierScan(map, explored, cur, i, queue, visited) ==
  IF i > Len(Dirs8)
  THEN [done |-> FALSE, at |-> NoCell, queue |-> queue, visited |-> visited]
  ELSE
    LET n == <<cur[1] + Dirs8[i][1], cur[2] + Dirs8[i][2]>> IN
    IF ~InBounds(n[1], n[2]) \/ n \in visited
    THEN FrontierScan(map, explored, cur, i + 1, queue, visited)
    ELSE IF n \notin explored
    THEN [done |-> TRUE, at |-> n, queue |-> queue, visited |-> visited \cup {n}]
    ELSE IF IsWalkable(map, n[1], n[2]) \/ map[n] = "DoorClosed"
    THEN FrontierScan(map, explored, cur, i + 1, Append(queue, n), visited \cup {n})
    ELSE FrontierScan(map, explored, cur, i + 1, queue, visited \cup {n})

RECURSIVE FrontierLoop(_, _, _, _)
FrontierLoop(map, explored, queue, visited) ==
  IF queue = <<>> THEN NoCell
  ELSE
    LET After(r) ==
          IF r.done THEN r.at ELSE FrontierLoop(map, explored, r.queue, r.visited)
    IN After(FrontierScan(map, explored, Head(queue), 1, Tail(queue), visited))

\* _findNearestUnexplored(sx, sy) without the search through explored tiles:
\* any unexplored tile of the grid is a target, the fault C10 excludes
FindAnyUnexplored(map, explored, sx, sy) ==
  IF Cells \subseteq explored THEN NoCell
  ELSE CHOOSE c \in Cells : c \notin explored

\* _findNearestUnexplored(sx, sy): the target cell, or NoCell for null
FindNearestUnexplored(map, explored, sx, sy) ==
  FrontierLoop(map, explored, << <<sx, sy>> >>, {<<sx, sy>>})

-----------------------------------------------------------------------------
(* Static data tables (GameData.js).  The model keeps a sample of the rows *)
(* of MONSTER_TYPES, POTION_TYPES, SCROLL_TYPES and EQUIPMENT_TYPES, with   *)
(* the numbers of the source; speed is the table's speed * 10.              *)

MonsterTypes ==
  [ floatingEye |-> [hp |-> 5, atk |-> 0, def |-> 0, xp |-> 3, speed |-> 10,
                     minLevel |-> 1, ai |-> "wander", ability |-> "paralyze", boss |-> FALSE],
    kobold      |-> [hp |-> 10, atk |-> 3, def |-> 0, xp |-> 8, speed |-> 10,
                     minLevel |-> 1, ai |-> "chase", ability |-> "none", boss |-> FALSE],
    warg        |-> [hp |-> 22, atk |-> 7, def |-> 1, xp |-> 25, speed |-> 20,
                     minLevel |-> 2, ai |-> "chase", ability |-> "none", boss |-> FALSE],
    darkElf     |-> [hp |-> 32, atk |-> 11, def |-> 3, xp |-> 55, speed |-> 10,
                     minLevel |-> 4, ai |-> "chase", ability |-> "teleport", boss |-> FALSE],
    demonImp    |-> [hp |-> 40, atk |-> 15, def |-> 3, xp |-> 85, speed |-> 20,
                     minLevel |-> 8, ai |-> "chase", ability |-> "summon", boss |-> FALSE],
    orc_king    |-> [hp |-> 100, atk |-> 16, def |-> 6, xp |-> 150, speed |-> 10,
                     minLevel |-> 3, ai |-> "chase", ability |-> "none", boss |-> TRUE],
    witch_king  |-> [hp |-> 160, atk |-> 22, def |-> 8, xp |-> 250, speed |-> 10,
                     minLevel |-> 6, ai |-> "chase", ability |-> "paralyze", boss |-> TRUE],
    smaug       |-> [hp |-> 250, atk |-> 30, def |-> 12, xp |-> 500, speed |-> 10,
                     minLevel |-> 9, ai |-> "chase", ability |-> "none", boss |-> TRUE],
    sauron      |-> [hp |-> 400, atk |-> 35, def |-> 14, xp |-> 800, speed |-> 10,
                     minLevel |-> 12, ai |-> "chase", ability |-> "summon", boss |-> TRUE],
    morgoth     |-> [hp |-> 600, atk |-> 45, def |-> 18, xp |-> 1500, speed |-> 10,
                     minLevel |-> 15, ai |-> "chase", ability |-> "none", boss |-> TRUE] ]

MonsterKinds == DOMAIN MonsterTypes

\* the kinds a summon draws from: the sample of the eligible rows the model
\* follows (Math.random picks any non-boss row with minLevel <= currentLevel)
SummonSample == {"floatingEye", "kobold"}

EligibleKinds(level) ==
  {k \in SummonSample : MonsterTypes[k].minLevel <= level /\ ~MonsterTypes[k].boss}

\* the entity record of _useScroll (summon_bad) and _monsterSummon
SummonedMonster(id, kind, x, y) ==
  LET t == MonsterTypes[kind] IN
  [id |-> id, kind |-> kind, x |-> x, y |-> y, hp |-> t.hp, maxHp |-> t.hp,
   atk |-> t.atk, def |-> t.def, xp |-> t.xp, speed |-> t.speed, energy |-> 0,
   ai |-> "chase", boss |-> FALSE, ability |-> t.ability]

TrapTypes ==
  [ teleport  |-> [effect |-> "teleport", damage |-> 0],
    pit       |-> [effect |-> "pit", damage |-> 15],
    poison    |-> [effect |-> "poison", damage |-> 8],
    alarm     |-> [effect |-> "alarm", damage |-> 0],
    fire      |-> [effect |-> "fire", damage |-> 20],
    confusion |-> [effect |-> "confusion", damage |-> 0] ]

Spells ==
  [ fireball  |-> [mpCost |-> 8, damage |-> 15, range |-> 4, radius |-> 1,
                   type |-> "aoe", cooldown |-> 3, healAmount |-> 0],
    heal      |-> [mpCost |-> 6, damage |-> 0, range |-> 0, radius |-> 0,
                   type |-> "self", cooldown |-> 2, healAmount |-> 20],
    lightning |-> [mpCost |-> 10, damage |-> 22, range |-> 6, radius |-> 0,
                   type |-> "line", cooldown |-> 4, healAmount |-> 0],
    frostNova |-> [mpCost |-> 12, damage |-> 12, range |-> 0, radius |-> 2,
                   type |-> "nova", cooldown |-> 5, healAmount |-> 0] ]

SpellKeys == DOMAIN Spells

XpTable == <<0, 20, 50, 100, 180, 300, 500, 800, 1200, 1800, 2500, 3500, 5000,
             7000, 10000, 15000, 22000, 30000, 40000, 55000>>

\* RACES.human, and CLASSES.warrior / CLASSES.istar with the multipliers * 10
Race == [hp |-> 10, mp |-> 8, str |-> 5, dex |-> 5, int |-> 5]

Classes ==
  [ warrior |-> [hpMult |-> 15, mpMult |-> 3, strMult |-> 15, dexMult |-> 10, intMult |-> 4],
    istar   |-> [hpMult |-> 6, mpMult |-> 20, strMult |-> 5, dexMult |-> 8, intMult |-> 16] ]

CeilDiv(a, b) == (a + b - 1) \div b

-----------------------------------------------------------------------------
(* Items.  An item is a record; its id is the number of item_<n>.  name is  *)
(* "cosmetic" for `${identity.appearance} Potion`, "true" for the name of   *)
(* the type table, "bonus" for the name with the signed bonus appended.     *)
(* Equipment slots hold an item record, NoItem for null.                    *)

Item(category, key, effect, value, identified, name, slot, atk, def, bonus, ench) ==
  [id |-> 0, x |-> 0, y |-> 0, category |-> category, key |-> key,
   effect |-> effect, value |-> value, identified |-> identified, name |-> name,
   slot |-> slot, atk |-> atk, def |-> def, bonus |-> bonus, enchantment |-> ench]

NoItem == Item("none", "none", "none", 0, FALSE, "true", "none", 0, 0, 0, "normal")

PotionTypes ==
  [ healPotion   |-> [effect |-> "heal", value |-> 30, minLevel |-> 0],
    poisonPotion |-> [effect |-> "poison", value |-> -15, minLevel |-> 0],
    speedPotion  |-> [effect |-> "speed", value |-> 5, minLevel |-> 3],
    manaPotion   |-> [effect |-> "mana", value |-> 25, minLevel |-> 0] ]

ScrollTypes ==
  [ identify     |-> [effect |-> "identify", minLevel |-> 0],
    teleport     |-> [effect |-> "teleport", minLevel |-> 2],
    magicMapping |-> [effect |-> "magic_map", minLevel |-> 3],
    enchant      |-> [effect |-> "enchant_wep", minLevel |-> 5],
    summon       |-> [effect |-> "summon_bad", minLevel |-> 0] ]

EquipmentTypes ==
  [ dagger       |-> [slot |-> "weapon", atk |-> 2, def |-> 0, minLevel |-> 1],
    leatherArmor |-> [slot |-> "armor", atk |-> 0, def |-> 2, minLevel |-> 1] ]

\* _generatePotion for type key: named by its appearance until the type is identified
Potion(key, identifiedPotions) ==
  Item("potion", key, PotionTypes[key].effect, PotionTypes[key].value,
       key \in identifiedPotions,
       IF key \in identifiedPotions THEN "true" ELSE "cosmetic", "none", 0, 0, 0, "normal")

\* _generateScroll for type key
Scroll(key) ==
  Item("scroll", key, ScrollTypes[key].effect, 0, TRUE, "true", "none", 0, 0, 0, "normal")

\* _generateEquipment for type key with the rolled bonus
Equipment(key, bonus) ==
  Item("equipment", key, "none", 0, FALSE, "true", EquipmentTypes[key].slot,
       EquipmentTypes[key].atk + bonus, EquipmentTypes[key].def + bonus, bonus,
       IF bonus < 0 THEN "cursed" ELSE IF bonus > 0 THEN "enchanted" ELSE "normal")

\* the character record of _createInitialState for class cls
InitialCharacter(cls) ==
  LET c == Classes[cls]
      maxHp == (Race.hp * c.hpMult * 3) \div 10
      maxMp == (Race.mp * c.mpMult * 3) \div 10
  IN [level |-> 1, xp |-> 0, xpToNext |-> XpTable[2],
      hp |-> maxHp, maxHp |-> maxHp, mp |-> maxMp, maxMp |-> maxMp,
      energy |-> 0, speed |-> PlayerSpeed,
      str |-> (Race.str * c.strMult) \div 10,
      dex |-> (Race.dex * c.dexMult) \div 10,
      int |-> (Race.int * c.intMult) \div 10,
      kills |-> 0,
      spellCooldowns |-> [fireball |-> 0, heal |-> 0, lightning |-> 0, frostNova |-> 0],
      inventory |-> <<>>,
      equipment |-> [weapon |-> NoItem, armor |-> NoItem, ring |-> NoItem]]

\* the items a monster's loot roll can yield: the sample of the outcomes of
\* _generateRandomItem the model follows
LootSample(g) ==
  {Potion("healPotion", g.identifiedPotions), Scroll("identify"), Equipment("dagger", 0)}

-----------------------------------------------------------------------------
(* Helpers over the game record.  g.entities is the sequence of the monster *)
(* entities in insertion order (the order of Object.values and of for-in);  *)
(* the player entity is the fields px, py, rot.                             *)

RemoveAt(s, i) == [j \in 1 .. Len(s) - 1 |-> IF j < i THEN s[j] ELSE s[j + 1]]

\* index of the first element of s satisfying P, or 0 (find / findIndex)
FirstIdx(s, P(_)) ==
  IF \E i \in 1 .. Len(s) : P(s[i])
    THEN CHOOSE i \in 1 .. Len(s) : P(s[i]) /\ \A j \in 1 .. i - 1 : ~P(s[j])
    ELSE 0

\* index in g.entities of the monster with this id, or 0
IdxOf(g, id) == FirstIdx(g.entities, LAMBDA m : m.id = id)

\* _getMonsterAt: index of the first monster at (x, y), or 0
GetMonsterAt(g, x, y) == FirstIdx(g.entities, LAMBDA m : m.x = x /\ m.y = y)

\* log(message), for the messages the properties below speak of
Log(g, tag) == [g EXCEPT !.logged = @ \cup {tag}]

\* DungeonGenerator.findRandomFloor: any FLOOR tile of the interior; the first
\* FLOOR tile in row order is among them; {x: 1, y: 1} when there is none
FindRandomFloor(map) ==
  LET OrCorner(floors) == IF floors = {} THEN {<<1, 1>>} ELSE floors
  IN OrCorner({c \in Cells : /\ c[1] >= 1 /\ c[1] <= Width - 2
                             /\ c[2] >= 1 /\ c[2] <= Height - 2
                             /\ map[c] = "Floor"})

\* stopLoop
StopLoop(g) == [g EXCEPT !.status = "paused"]

\* _playerDeath
PlayerDeath(g) ==
  LET g1 == [g EXCEPT !.status = "dead", !.char.hp = 0, !.autoRun.active = FALSE]
      g2 == StopLoop(g1)
  IN [g2 EXCEPT !.gameOvers = @ + 1, !.lastOver = "dead"]

\* _victory
Victory(g) ==
  LET g1 == [g EXCEPT !.status = "won", !.autoRun.active = FALSE]
      g2 == StopLoop(g1)
  IN [g2 EXCEPT !.gameOvers = @ + 1, !.lastOver = "won"]

\* one round of the while loop of _checkLevelUp
LevelUpOnce(g) ==
  LET c == Classes[g.cls]
      lvl == g.char.level + 1
      maxHp == g.char.maxHp + (Race.hp * c.hpMult * 5) \div 100
      maxMp == g.char.maxMp + (Race.mp * c.mpMult * 4) \div 100
  IN [g EXCEPT !.char.level = lvl,
               !.char.maxHp = maxHp, !.char.maxMp = maxMp,
               !.char.str = @ + CeilDiv(c.strMult * 5, 100),
               !.char.dex = @ + CeilDiv(c.dexMult * 5, 100),
               !.char.int = @ + CeilDiv(c.intMult * 5, 100),
               !.char.hp = maxHp, !.char.mp = maxMp,
               !.char.xpToNext = IF lvl + 1 <= Len(XpTable) /\ XpTable[lvl + 1] # 0
                                   THEN XpTable[lvl + 1] ELSE @ * 2]

\* _checkLevelUp, were its while an if: one level at most for one kill
CheckLevelUpOnce(g) ==
  IF g.char.xp >= g.char.xpToNext /\ g.char.level < Len(XpTable)
    THEN LevelUpOnce(g)
    ELSE g

RECURSIVE CheckLevelUp(_)
\* _checkLevelUp
CheckLevelUp(g) ==
  IF g.char.xp >= g.char.xpToNext /\ g.char.level < Len(XpTable)
    THEN CheckLevelUp(LevelUpOnce(g))
    ELSE g

\* _killMonster of the monster with this id: the loot roll decides the outcome
KillMonster(g, id) ==
  LET Finish(h, i, boss) ==
        LET Over(h1) == IF boss /\ h1.currentLevel = MaxLevel THEN Victory(h1) ELSE h1
        IN Over(CheckLevelUp([h EXCEPT !.entities = RemoveAt(@, i)]))
      Drops(g1, m, i) ==
        {Finish(g1, i, m.boss)} \cup
        {Finish([g1 EXCEPT !.items = Append(@, [it EXCEPT !.x = m.x, !.y = m.y,
                                                          !.id = g1.nextEntityId]),
                           !.nextEntityId = @ + 1], i, m.boss) : it \in LootSample(g1)}
      Kill(i) ==
        Drops([g EXCEPT !.char.xp = @ + g.entities[i].xp, !.char.kills = @ + 1],
              g.entities[i], i)
  IN Kill(IdxOf(g, id))

\* _meleeAttack on the monster at index i
MeleeAttack(g, i) ==
  LET weaponAtk == IF g.char.equipment.weapon # NoItem THEN g.char.equipment.weapon.atk ELSE 0
      Struck(g1) == IF g1.entities[i].hp <= 0 THEN KillMonster(g1, g.entities[i].id) ELSE {g1}
      Hit(r) ==
        Struck([g EXCEPT !.entities[i].hp =
                           @ - Max(1, g.char.str + weaponAtk + r - g.entities[i].def)])
  IN UNION {Hit(r) : r \in 0 .. Max(0, g.char.str - 1)}

\* _pickupItem, were it to leave the item on the ground as well
PickupItemLeavingCopy(g) ==
  LET Take(idx) ==
        IF idx = 0 THEN Log(g, "nothingToPickUp")
        ELSE [g EXCEPT !.char.inventory = Append(@, g.items[idx])]
  IN Take(FirstIdx(g.items, LAMBDA it : it.x = g.px /\ it.y = g.py))

\* _pickupItem
PickupItem(g) ==
  LET Take(idx) ==
        IF idx = 0 THEN Log(g, "nothingToPickUp")
        ELSE [g EXCEPT !.char.inventory = Append(@, g.items[idx]),
                       !.items = RemoveAt(@, idx)]
  IN Take(FirstIdx(g.items, LAMBDA it : it.x = g.px /\ it.y = g.py))

\* _checkItemOnGround
CheckItemOnGround(g) ==
  IF \E i \in 1 .. Len(g.items) : g.items[i].x = g.px /\ g.items[i].y = g.py
    THEN PickupItem(g) ELSE g

\* _checkTrap(x, y), were it to spring a revealed trap as well
CheckTrapSpringingAgain(g, x, y) ==
  LET Hurt(h) == IF h.char.hp <= 0 THEN PlayerDeath(h) ELSE h
      Spring(g1, def) ==
        CASE def.effect = "teleport" ->
               {[g1 EXCEPT !.px = pos[1], !.py = pos[2], !.autoRun.active = FALSE]
                  : pos \in FindRandomFloor(g1.map)}
          [] def.effect \in {"pit", "fire", "poison"} ->
               {Hurt([g1 EXCEPT !.char.hp = @ - def.damage])}
          [] OTHER -> {g1}
      At(ti) ==
        IF ti = 0 THEN {g}
        ELSE Spring([g EXCEPT !.traps[ti].revealed = TRUE, !.map[<<x, y>>] = "TrapRevealed",
                              !.trapEvents = @ + 1],
                    TrapTypes[g.traps[ti].type])
  IN At(FirstIdx(g.traps, LAMBDA t : t.x = x /\ t.y = y))

\* _checkTrap(x, y)
CheckTrap(g, x, y) ==
  LET Hurt(h) == IF h.char.hp <= 0 THEN PlayerDeath(h) ELSE h
      Spring(g1, def) ==
        CASE def.effect = "teleport" ->
               {[g1 EXCEPT !.px = pos[1], !.py = pos[2], !.autoRun.active = FALSE]
                  : pos \in FindRandomFloor(g1.map)}
          [] def.effect \in {"pit", "fire", "poison"} ->
               {Hurt([g1 EXCEPT !.char.hp = @ - def.damage])}
          [] def.effect = "alarm" ->
               {[g1 EXCEPT !.entities =
                   [k \in 1 .. Len(@) |->
                      IF @[k].ai = "wander" /\ Manhattan(@[k].x, @[k].y, x, y) < AlarmRadius
                        THEN [@[k] EXCEPT !.ai = "chase"] ELSE @[k]]]}
          [] OTHER -> {g1}
      At(ti) ==
        IF ti = 0 THEN {g}
        ELSE IF g.traps[ti].revealed THEN {g}
        ELSE Spring([g EXCEPT !.traps[ti].revealed = TRUE, !.map[<<x, y>>] = "TrapRevealed",
                              !.trapEvents = @ + 1],
                    TrapTypes[g.traps[ti].type])
  IN At(FirstIdx(g.traps, LAMBDA t : t.x = x /\ t.y = y))

\* _checkPortal(x, y)
CheckPortal(g, x, y) ==
  IF g.map[<<x, y>>] = "Portal"
    THEN {[g EXCEPT !.px = pos[1], !.py = pos[2], !.autoPath = <<>>]
            : pos \in FindRandomFloor(g.map)}
    ELSE {g}

\* the rotation _processMovement leaves for a step (dx, dy)
Rotation(rot, dx, dy) ==
  IF dy = -1 THEN 0 ELSE IF dy = 1 THEN 180
  ELSE IF dx = -1 THEN 270 ELSE IF dx = 1 THEN 90 ELSE rot

\* _processMovement, for the step (dx, dy) its action tag stands for
ProcessMovement(g, dx, dy) ==
  LET Step(newX, newY, mi, g1) ==
        IF mi # 0 THEN MeleeAttack(g, mi)
        ELSE IF IsWalkable(g1.map, newX, newY)
          THEN Bind(CheckTrap([g1 EXCEPT !.px = newX, !.py = newY,
                                         !.rot = Rotation(@, dx, dy)], newX, newY),
                    LAMBDA h : CheckPortal(CheckItemOnGround(h), newX, newY))
          ELSE {g1}
      To(newX, newY) ==
        Step(newX, newY, GetMonsterAt(g, newX, newY),
             IF InBounds(newX, newY) /\ g.map[<<newX, newY>>] = "DoorClosed"
               THEN [g EXCEPT !.map[<<newX, newY>>] = "DoorOpen"] ELSE g)
  IN To(g.px + dx, g.py + dy)

\* _searchWalls: every secret wall around the player becomes a closed door;
\* each hidden trap around the player is revealed or not (Math.random() < 0.4)
SearchWalls(g) ==
  LET Found(R, spots, secrets) ==
        LET Told(g1) == IF R = {} /\ secrets = {} THEN Log(g1, "searchNothing") ELSE g1
        IN Told([g EXCEPT
                   !.map = [c \in Cells |->
                              IF c \in spots THEN "TrapRevealed"
                              ELSE IF c \in secrets THEN "DoorClosed" ELSE @[c]],
                   !.traps = [i \in 1 .. Len(@) |->
                                IF i \in R THEN [@[i] EXCEPT !.revealed = TRUE] ELSE @[i]]])
      Around(near) ==
        LET hidden == {i \in 1 .. Len(g.traps) :
                         /\ <<g.traps[i].x, g.traps[i].y>> \in near
                         /\ ~g.traps[i].revealed
                         /\ \A j \in 1 .. i - 1 :
                              ~(g.traps[j].x = g.traps[i].x /\ g.traps[j].y = g.traps[i].y
                                /\ ~g.traps[j].revealed)}
        IN {Found(R, {<<g.traps[i].x, g.traps[i].y>> : i \in R},
                  {c \in near : g.map[c] = "SecretWall"}) : R \in SUBSET hidden}
  IN Around({c \in Cells : Abs(c[1] - g.px) <= 1 /\ Abs(c[2] - g.py) <= 1})

-----------------------------------------------------------------------------
(* Level generation.  DungeonGenerator.generate and the spawn functions     *)
(* draw from Math.random; the model follows the outcomes indexed by a seed: *)
(* Draw(S, k) is the cell of S of rank k (mod the size of S) in row order.  *)

\* seeds of the generator's random draws the model follows
MaxSeed == 1

Ord(c) == c[2] * Width + c[1]

Draw(S, k) ==
  CHOOSE c \in S : Cardinality({d \in S : Ord(d) < Ord(c)}) = k % Cardinality(S)

\* the rooms _generateRooms can place on a 9 x 5 map: two rooms on row 1
Rooms == << [x |-> 1, y |-> 1, w |-> 2, h |-> 3], [x |-> 4, y |-> 1, w |-> 3, h |-> 3] >>

RoomCells(r) == {c \in Cells : /\ c[1] >= r.x /\ c[1] < r.x + r.w
                               /\ c[2] >= r.y /\ c[2] < r.y + r.h}

\* the tile of the corridor _connectRooms carves between the two room centres
\* that lies outside both rooms, where _tryPlaceDoor can place a closed door
DoorSpot == <<3, 2>>

\* the map after _generateRooms, _connectRooms and _placeDoors
CarvedMap(door) ==
  [c \in Cells |->
     IF c \in RoomCells(Rooms[1]) \cup RoomCells(Rooms[2]) THEN "Floor"
     ELSE IF c = DoorSpot THEN (IF door THEN "DoorClosed" ELSE "Floor")
     ELSE "Wall"]

TrapOrder == <<"pit", "teleport", "alarm", "poison", "fire", "confusion">>

\* trapCount of generate
TrapCount(levelNum) == (10 + levelNum * 6) \div 10

RECURSIVE PlaceTraps(_, _, _, _)
\* _placeTraps: res is [map, traps]; a trap goes onto a FLOOR tile of a room
PlaceTraps(res, count, levelNum, seed) ==
  LET k == Len(res.traps)
      Put(c) ==
        PlaceTraps([map |-> [res.map EXCEPT ![c] = "TrapHidden"],
                    traps |-> Append(res.traps,
                                [x |-> c[1], y |-> c[2],
                                 type |-> TrapOrder[((seed + k) % 6) + 1],
                                 revealed |-> FALSE])],
                   count, levelNum, seed)
      Among(free) ==
        IF k >= count \/ free = {} THEN res ELSE Put(Draw(free, seed * 5 + k * 3 + 4))
  IN Among({c \in RoomCells(Rooms[1]) \cup RoomCells(Rooms[2]) : res.map[c] = "Floor"})

\* DungeonGenerator.generate, for one seed: [map, traps]
Generate(levelNum, seed) ==
  PlaceTraps([map |-> CarvedMap(seed % 2 = 1), traps |-> <<>>],
             TrapCount(levelNum), levelNum, seed)

\* DungeonGenerator.findFloorInRoom: the FLOOR tiles of the room, or its corner
FindFloorInRoom(map, r) ==
  LET OrCorner(fl) == IF fl = {} THEN {<<r.x, r.y>>} ELSE fl
  IN OrCorner({c \in RoomCells(r) : map[c] = "Floor"})

\* LEVEL_THEMES: monsterDensity * 1000 and bossKey per depth
MonsterDensity == <<15, 20, 50, 40, 60, 60, 50, 60, 70, 70, 80, 80, 70, 60, 50>>

BossKey(levelNum) ==
  CASE levelNum = 3 -> "orc_king" [] levelNum = 6 -> "witch_king"
    [] levelNum = 9 -> "smaug" [] levelNum = 12 -> "sauron"
    [] levelNum = 15 -> "morgoth" [] OTHER -> "none"

\* the entity record of spawnMonsters for a regular monster
SpawnedMonster(id, kind, x, y, levelNum) ==
  LET t == MonsterTypes[kind]
      scale == 100 + (levelNum - t.minLevel) * 15
  IN [id |-> id, kind |-> kind, x |-> x, y |-> y,
      hp |-> (t.hp * scale) \div 100, maxHp |-> (t.hp * scale) \div 100,
      atk |-> (t.atk * scale) \div 100, def |-> t.def, xp |-> (t.xp * scale) \div 100,
      speed |-> t.speed, energy |-> 0, ai |-> t.ai, boss |-> FALSE, ability |-> t.ability]

\* the entity record of spawnMonsters for the zone boss
SpawnedBoss(id, kind, x, y) ==
  LET t == MonsterTypes[kind] IN
  [id |-> id, kind |-> kind, x |-> x, y |-> y, hp |-> t.hp, maxHp |-> t.hp,
   atk |-> t.atk, def |-> t.def, xp |-> t.xp, speed |-> t.speed, energy |-> 0,
   ai |-> t.ai, boss |-> TRUE, ability |-> t.ability]

\* the regular kinds spawnMonsters draws from at this depth (sampled)
SpawnKinds(levelNum) ==
  {k \in {"floatingEye", "kobold", "warg"} : MonsterTypes[k].minLevel <= levelNum}

RECURSIVE SpawnMonsters(_, _, _, _)
\* the for loop of spawnMonsters, i monsters still to draw
SpawnMonsters(g, levelNum, i, seed) ==
  LET Kind(kinds) ==
        CHOOSE k \in kinds :
          Cardinality({j \in kinds : MonsterTypes[j].hp < MonsterTypes[k].hp})
            = (seed + i) % Cardinality(kinds)
      At(pos, kinds) ==
        IF pos = <<g.px, g.py>> \/ pos = g.stairs THEN SpawnMonsters(g, levelNum, i - 1, seed)
        ELSE IF kinds = {} THEN g
        ELSE SpawnMonsters(
               [g EXCEPT !.entities = Append(@, SpawnedMonster(g.nextEntityId, Kind(kinds),
                                                               pos[1], pos[2], levelNum)),
                         !.nextEntityId = @ + 1],
               levelNum, i - 1, seed)
  IN IF i = 0 THEN g
     ELSE At(Draw(FindRandomFloor(g.map), seed * 7 + i * 2 + 1), SpawnKinds(levelNum))

\* the boss part of spawnMonsters
SpawnBoss(g, levelNum, seed) ==
  LET At(pos) ==
        [g EXCEPT !.entities = Append(@, SpawnedBoss(g.nextEntityId, BossKey(levelNum),
                                                     pos[1], pos[2])),
                  !.nextEntityId = @ + 1]
  IN IF BossKey(levelNum) = "none" THEN g
     ELSE At(Draw(FindRandomFloor(g.map), seed * 3 + 2))

\* the outcomes of _generateRandomItem the spawn follows, in turn
ItemOrder(g, levelNum) ==
  << Potion("healPotion", g.identifiedPotions), Scroll("identify"),
     Equipment("dagger", 0), Potion("poisonPotion", g.identifiedPotions),
     Scroll(IF levelNum >= 2 THEN "teleport" ELSE "summon"),
     Equipment("leatherArmor", -1) >>

RECURSIVE SpawnItems(_, _, _, _)
\* the for loop of spawnItems, i items still to draw
SpawnItems(g, levelNum, i, seed) ==
  LET At(pos, it) ==
        SpawnItems(
          [g EXCEPT !.items = Append(@, [it EXCEPT !.x = pos[1], !.y = pos[2],
                                                   !.id = g.nextEntityId]),
                    !.nextEntityId = @ + 1],
          levelNum, i - 1, seed)
  IN IF i = 0 THEN g
     ELSE At(Draw(FindRandomFloor(g.map), seed * 11 + i * 4),
             ItemOrder(g, levelNum)[((seed * 2 + i) % 6) + 1])

\* generateLevel(levelNum), one outcome per seed
GenerateLevelSeed(g, levelNum, seed) ==
  LET count == (Width * Height * MonsterDensity[levelNum]) \div 1000
      Spawn(g1) ==
        UpdateVisibility(
          SpawnItems(SpawnBoss(SpawnMonsters(g1, levelNum, count, seed), levelNum, seed),
                     levelNum, 3 + (levelNum * 8) \div 10, seed))
      Place(res, ppos, spos, upos) ==
        Spawn([g EXCEPT !.currentLevel = levelNum, !.entities = <<>>, !.items = <<>>,
                        !.autoRun = [active |-> FALSE, dx |-> 0, dy |-> 0],
                        !.autoPath = <<>>,
                        !.map = res.map, !.traps = res.traps,
                        !.visibility = {}, !.explored = {},
                        !.px = ppos[1], !.py = ppos[2],
                        !.stairs = IF levelNum < MaxLevel THEN spos ELSE NoCell,
                        !.stairsUp = IF levelNum > 1 THEN upos ELSE NoCell,
                        !.gens = @ + 1])
      On(res) ==
        Place(res, Draw(FindFloorInRoom(res.map, Rooms[1]), seed),
              Draw(FindFloorInRoom(res.map, Rooms[Len(Rooms)]), seed + 1),
              Draw(FindFloorInRoom(res.map, Rooms[1]), seed + 2))
  IN On(Generate(levelNum, seed))

\* generateLevel(levelNum)
GenerateLevel(g, levelNum) ==
  {GenerateLevelSeed(g, levelNum, seed) : seed \in 0 .. MaxSeed}

\* _tryDescend
TryDescend(g) ==
  IF g.stairs # NoCell /\ g.stairs = <<g.px, g.py>>
    THEN IF g.currentLevel < MaxLevel THEN GenerateLevel(g, g.currentLevel + 1) ELSE {g}
    ELSE {Log(g, "noStairs")}

\* _tryAscend
TryAscend(g) ==
  IF g.stairsUp # NoCell /\ g.stairsUp = <<g.px, g.py>>
    THEN IF g.currentLevel > 1 THEN GenerateLevel(g, g.currentLevel - 1) ELSE {g}
    ELSE {Log(g, "noStairs")}

-----------------------------------------------------------------------------
(* Spells *)

\* _findNearestMonster: index of the first monster at the least distance <= range, or 0
FindNearestMonster(g, px, py, range) ==
  LET D(i) == Manhattan(g.entities[i].x, g.entities[i].y, px, py)
      inRange == {i \in 1 .. Len(g.entities) : D(i) <= range}
  IN IF inRange = {} THEN 0
     ELSE CHOOSE i \in inRange :
            \A j \in inRange : D(i) < D(j) \/ (D(i) = D(j) /\ i <= j)

\* _getMonstersInRadius: the ids of the monsters within the radius, in entity order
GetMonstersInRadius(g, cx, cy, radius) ==
  LET F[i \in 0 .. Len(g.entities)] ==
        IF i = 0 THEN <<>>
        ELSE IF Manhattan(g.entities[i].x, g.entities[i].y, cx, cy) <= radius
               THEN Append(F[i - 1], g.entities[i].id) ELSE F[i - 1]
  IN F[Len(g.entities)]

RECURSIVE DamageAll(_, _, _)
\* the damage loops of _castAoE and _castNova over the monsters with these ids
DamageAll(g, ids, damage) ==
  LET Struck(g1, i) == IF g1.entities[i].hp <= 0 THEN KillMonster(g1, Head(ids)) ELSE {g1}
      Strike(i) == Struck([g EXCEPT !.entities[i].hp = @ - damage], i)
  IN IF ids = <<>> THEN {g}
     ELSE Bind(Strike(IdxOf(g, Head(ids))), LAMBDA h : DamageAll(h, Tail(ids), damage))

\* _castHeal
CastHeal(g) ==
  LET healAmount == Spells.heal.healAmount + (g.char.int * 3) \div 2
  IN {[g EXCEPT !.char.hp = Min(g.char.maxHp, @ + healAmount)]}

\* _castAoE: without a target the mana comes back and the cooldown of fireball is cleared
CastAoE(g, spell) ==
  LET damage == spell.damage + (g.char.int * 8) \div 10
      Aim(t) ==
        IF t = 0
          THEN {[Log(g, "noTarget") EXCEPT !.char.mp = @ + spell.mpCost,
                                           !.char.spellCooldowns.fireball = 0]}
          ELSE DamageAll(g, GetMonstersInRadius(g, g.entities[t].x, g.entities[t].y,
                                                spell.radius), damage)
  IN Aim(FindNearestMonster(g, g.px, g.py, spell.range))

RECURSIVE LineStep(_, _, _, _, _, _, _)
\* the for loop of _castLine, from the tile after (cx, cy), left tiles to go
LineStep(g, cx, cy, dx, dy, left, damage) ==
  LET nx == cx + dx
      ny == cy + dy
      Struck(g1, mi) ==
        IF g1.entities[mi].hp <= 0 THEN KillMonster(g1, g.entities[mi].id) ELSE {g1}
      Strike(mi) ==
        IF mi = 0 THEN {g} ELSE Struck([g EXCEPT !.entities[mi].hp = @ - damage], mi)
  IN IF left = 0 \/ ~InBounds(nx, ny) THEN {g}
     ELSE IF g.map[<<nx, ny>>] = "Wall" THEN {g}
     ELSE Bind(Strike(GetMonsterAt(g, nx, ny)),
               LAMBDA h : LineStep(h, nx, ny, dx, dy, left - 1, damage))

\* _castLine: the bolt flies where the player faces
CastLine(g, spell) ==
  LET dx == IF g.rot = 90 THEN 1 ELSE IF g.rot = 270 THEN -1 ELSE 0
      dy == IF g.rot = 180 THEN 1 ELSE IF g.rot \in {90, 270} THEN 0 ELSE -1
  IN LineStep(g, g.px, g.py, dx, dy, spell.range, spell.damage + g.char.int)

\* _castNova
CastNova(g, spell) ==
  DamageAll(g, GetMonstersInRadius(g, g.px, g.py, spell.radius),
            spell.damage + (g.char.int * 6) \div 10)

\* _castSpell(spellKey)
CastSpell(g, spellKey) ==
  IF spellKey \notin SpellKeys THEN {g}
  ELSE LET spell == Spells[spellKey] IN
    IF g.char.spellCooldowns[spellKey] > 0 THEN {Log(g, "onCooldown")}
    ELSE IF g.char.mp < spell.mpCost THEN {Log(g, "notEnoughMana")}
    ELSE LET g1 == [g EXCEPT !.char.mp = @ - spell.mpCost,
                             !.char.spellCooldowns[spellKey] = spell.cooldown]
         IN CASE spell.type = "self" -> CastHeal(g1)
              [] spell.type = "aoe" -> CastAoE(g1, spell)
              [] spell.type = "line" -> CastLine(g1, spell)
              [] spell.type = "nova" -> CastNova(g1, spell)

-----------------------------------------------------------------------------
(* Inventory *)

\* the potions of a list that the identify scroll names
IdentifyAll(items) ==
  [i \in 1 .. Len(items) |->
     IF items[i].category = "potion" /\ ~items[i].identified
       THEN [items[i] EXCEPT !.identified = TRUE, !.name = "true"] ELSE items[i]]

UnidentifiedKeys(items) ==
  {items[i].key : i \in {j \in 1 .. Len(items) :
                           items[j].category = "potion" /\ ~items[j].identified}}

\* _usePotion
UsePotion(g, item) ==
  LET g1 == IF ~item.identified
              THEN [g EXCEPT !.identifiedPotions = @ \cup {item.key}] ELSE g
      poisoned == [g1 EXCEPT !.char.hp = @ + item.value]
  IN CASE item.effect = "heal" ->
            [g1 EXCEPT !.char.hp = @ + Min(item.value, g1.char.maxHp - g1.char.hp)]
       [] item.effect = "mana" ->
            [g1 EXCEPT !.char.mp = @ + Min(item.value, g1.char.maxMp - g1.char.mp)]
       [] item.effect = "str_boost" -> [g1 EXCEPT !.char.str = @ + item.value]
       [] item.effect = "dex_boost" -> [g1 EXCEPT !.char.dex = @ + item.value]
       [] item.effect = "poison" ->
            IF poisoned.char.hp <= 0 THEN PlayerDeath(poisoned) ELSE poisoned
       [] item.effect = "speed" -> [g1 EXCEPT !.char.speed = @ + item.value]
       [] OTHER -> g1

RECURSIVE SummonBad(_, _, _)
\* the for loop of summon_bad, i monsters still to come
SummonBad(g, i, seed) ==
  LET kinds == EligibleKinds(g.currentLevel)
      kind == CHOOSE k \in kinds :
                Cardinality({j \in kinds : MonsterTypes[j].hp < MonsterTypes[k].hp})
                  = (seed + i) % Cardinality(kinds)
      At(pos) ==
        SummonBad([g EXCEPT !.entities = Append(@, SummonedMonster(g.nextEntityId, kind,
                                                                   pos[1], pos[2])),
                            !.nextEntityId = @ + 1],
                  i - 1, seed)
  IN IF i = 0 \/ kinds = {} THEN g
     ELSE At(Draw(FindRandomFloor(g.map), seed * 5 + i * 2))

\* _useScroll, were identify to flag the potions and leave their names
UseScrollKeepingNames(g, item) ==
  LET Flag(items) ==
        [i \in 1 .. Len(items) |->
           IF items[i].category = "potion" /\ ~items[i].identified
             THEN [items[i] EXCEPT !.identified = TRUE] ELSE items[i]]
  IN IF item.effect = "identify"
       THEN {[g EXCEPT !.identifiedPotions =
                         @ \cup UnidentifiedKeys(g.char.inventory) \cup UnidentifiedKeys(g.items),
                       !.char.inventory = Flag(@),
                       !.items = Flag(@)]}
       ELSE {g}

\* _useScroll, were identify to start the identified set afresh
UseScrollForgetting(g, item) ==
  IF item.effect = "identify"
    THEN {[g EXCEPT !.identifiedPotions =
                      UnidentifiedKeys(g.char.inventory) \cup UnidentifiedKeys(g.items),
                    !.char.inventory = IdentifyAll(@),
                    !.items = IdentifyAll(@)]}
    ELSE {g}

\* _useScroll
UseScroll(g, item) ==
  CASE item.effect = "identify" ->
         {[g EXCEPT !.identifiedPotions =
                      @ \cup UnidentifiedKeys(g.char.inventory) \cup UnidentifiedKeys(g.items),
                    !.char.inventory = IdentifyAll(@),
                    !.items = IdentifyAll(@)]}
    [] item.effect = "teleport" ->
         {[g EXCEPT !.px = pos[1], !.py = pos[2], !.autoRun.active = FALSE]
            : pos \in FindRandomFloor(g.map)}
    [] item.effect = "magic_map" -> {[g EXCEPT !.explored = Cells]}
    [] item.effect = "enchant_wep" ->
         {IF g.char.equipment.weapon # NoItem
            THEN [g EXCEPT !.char.equipment.weapon.atk = @ + 2] ELSE g}
    [] item.effect = "summon_bad" -> {SummonBad(g, 3, seed) : seed \in 0 .. MaxSeed}
    [] OTHER -> {g}

\* the equipment branch of useInventoryItem: swap with the slot, reveal the bonus
Equip(g, idx) ==
  LET item == g.char.inventory[idx]
      worn == IF item.identified THEN item
              ELSE [item EXCEPT !.identified = TRUE,
                                !.name = IF item.bonus # 0 THEN "bonus" ELSE @]
      current == g.char.equipment[item.slot]
  IN [g EXCEPT !.char.equipment[item.slot] = worn,
               !.char.inventory = IF current # NoItem THEN [@ EXCEPT ![idx] = current]
                                  ELSE RemoveAt(@, idx)]

\* useInventoryItem(idx - 1): idx counts from 1 here
UseInventoryItem(g, idx) ==
  IF idx < 1 \/ idx > Len(g.char.inventory) THEN {g}
  ELSE LET item == g.char.inventory[idx]
           Consume(h) == [h EXCEPT !.char.inventory = RemoveAt(@, idx)]
       IN CASE item.category = "potion" -> {Consume(UsePotion(g, item))}
            [] item.category = "scroll" -> {Consume(h) : h \in UseScroll(g, item)}
            [] item.category = "equipment" -> {Equip(g, idx)}
            [] OTHER -> {g}

\* dropItem(idx - 1)
DropItem(g, idx) ==
  IF idx < 1 \/ idx > Len(g.char.inventory) THEN g
  ELSE [g EXCEPT !.char.inventory = RemoveAt(@, idx),
                 !.items = Append(@, [g.char.inventory[idx] EXCEPT !.x = g.px, !.y = g.py])]

-----------------------------------------------------------------------------
(* Monsters *)

\* _canMonsterMove
CanMonsterMove(g, x, y) ==
  /\ IsWalkable(g.map, x, y)
  /\ ~(g.px = x /\ g.py = y)
  /\ GetMonsterAt(g, x, y) = 0

\* _monsterWander of monster i: stays (70%, or a blocked direction) or steps
MonsterWander(g, i) ==
  LET m == g.entities[i]
  IN {g} \cup {[g EXCEPT !.entities[i].x = m.x + d[1], !.entities[i].y = m.y + d[2]]
                 : d \in {e \in Range(Dirs4) : CanMonsterMove(g, m.x + e[1], m.y + e[2])}}

\* _monsterAttack of monster i
MonsterAttack(g, i) ==
  LET m == g.entities[i]
      armorDef == IF g.char.equipment.armor # NoItem THEN g.char.equipment.armor.def ELSE 0
      ringDef == IF g.char.equipment.ring # NoItem THEN g.char.equipment.ring.def ELSE 0
      dexReduction == (g.char.dex * 3) \div 10
      Struck(g3) == IF g3.char.hp <= 0 THEN PlayerDeath(g3) ELSE g3
      Hit(damage, drains, paralyzes) ==
        Struck([g EXCEPT !.char.hp = @ - damage,
                         !.entities[i].hp = IF drains THEN Min(m.maxHp, @ + damage \div 2)
                                            ELSE @,
                         !.char.energy = IF paralyzes THEN 0 ELSE @])
  IN {Hit(Max(1, m.atk + r - dexReduction - armorDef - ringDef), dr, pa)
        : r \in 0 .. 2,
          dr \in IF m.ability = "drain" THEN BOOLEAN ELSE {FALSE},
          pa \in IF m.ability = "paralyze" THEN BOOLEAN ELSE {FALSE}}

\* _monsterSummon of monster i: the new monster takes the first free side
MonsterSummon(g, i) ==
  LET m == g.entities[i]
      free == {k \in 1 .. 4 : CanMonsterMove(g, m.x + Dirs4[k][1], m.y + Dirs4[k][2])}
      k0 == CHOOSE k \in free : \A j \in free : k <= j
  IN IF EligibleKinds(g.currentLevel) = {} \/ free = {} THEN {g}
     ELSE {[g EXCEPT !.entities = Append(@, SummonedMonster(g.nextEntityId, kind,
                                              m.x + Dirs4[k0][1], m.y + Dirs4[k0][2])),
                     !.nextEntityId = @ + 1]
             : kind \in EligibleKinds(g.currentLevel)}

\* a chase step after which the monster has lost the player's track and is
\* back in wander: the fault C14 excludes
MonsterChaseLosingTrack(g, i) ==
  {[h EXCEPT !.entities[i].ai = "wander"] : h \in MonsterWander(g, i)}

\* the chase step at the end of _processMonsterAI
MonsterChase(g, i) ==
  LET m == g.entities[i]
      dx == g.px - m.x
      dy == g.py - m.y
  IN IF CanMonsterMove(g, m.x + Sign(dx), m.y + Sign(dy))
       THEN {[g EXCEPT !.entities[i].x = m.x + Sign(dx), !.entities[i].y = m.y + Sign(dy)]}
     ELSE IF dx # 0 /\ CanMonsterMove(g, m.x + Sign(dx), m.y)
       THEN {[g EXCEPT !.entities[i].x = m.x + Sign(dx)]}
     ELSE IF dy # 0 /\ CanMonsterMove(g, m.x, m.y + Sign(dy))
       THEN {[g EXCEPT !.entities[i].y = m.y + Sign(dy)]}
     ELSE MonsterWander(g, i)

\* _processMonsterAI of monster i
ProcessMonsterAI(g, i) ==
  LET m == g.entities[i]
      dist == Manhattan(g.px, g.py, m.x, m.y)
      wakes == dist <= ChaseRadius /\ <<m.x, m.y>> \in g.visibility
      g1 == IF m.ai = "wander" THEN [g EXCEPT !.entities[i].ai = "chase"] ELSE g
      teleported == IF m.ability = "teleport" /\ dist <= 5
                      THEN {[g1 EXCEPT !.px = pos[1], !.py = pos[2], !.autoRun.active = FALSE]
                              : pos \in FindRandomFloor(g1.map)}
                      ELSE {}
      summoned == IF m.ability = "summon" /\ dist <= 8 THEN MonsterSummon(g1, i) ELSE {}
  IN IF m.ai = "wander" /\ ~wakes THEN MonsterWander(g, i)
     ELSE IF dist <= 1 THEN MonsterAttack(g1, i)
     ELSE teleported \cup summoned \cup MonsterChase(g1, i)

-----------------------------------------------------------------------------
(* Player actions, auto-run and path-walk.  These operators return OUTCOMES: *)
(* records [g, start, frames, acc, subs] where g is the game when the call   *)
(* reaches its first processTurnLoop (start = TRUE) or returns (start =      *)
(* FALSE), frames is what the callers on the stack still have to do after    *)
(* that drain loop ("pathOff": _isPathAction = false in _doPathStep and      *)
(* startPathTo, "queueTail": the last two lines of an enclosing queueAction),*)
(* acc counts the actions accepted and subs the subtractions of ActionCost.  *)

Done(g) == [g |-> g, start |-> FALSE, frames |-> <<>>, acc |-> 0, subs |-> 0]

MoveDir ==
  [ move_up |-> <<0, -1>>, move_down |-> <<0, 1>>, move_left |-> <<-1, 0>>,
    move_right |-> <<1, 0>>, move_up_left |-> <<-1, -1>>, move_up_right |-> <<1, -1>>,
    move_down_left |-> <<-1, 1>>, move_down_right |-> <<1, 1>> ]

CastKey ==
  [ cast_fireball |-> "fireball", cast_heal |-> "heal", cast_lightning |-> "lightning",
    cast_frostNova |-> "frostNova" ]

\* the action tags a caller of queueAction passes
UserActions ==
  DOMAIN MoveDir \cup DOMAIN CastKey \cup
  {"descend", "ascend", "wait", "pickup", "auto_explore", "search", "use_item"}

\* _shouldInterruptAutoRun(nx, ny)
ShouldInterruptAutoRun(g, nx, ny) ==
  \/ \E i \in 1 .. Len(g.entities) : <<g.entities[i].x, g.entities[i].y>> \in g.visibility
  \/ \E i \in 1 .. Len(g.items) :
       \/ g.items[i].x = g.px /\ g.items[i].y = g.py
       \/ g.items[i].x = nx /\ g.items[i].y = ny
  \/ InBounds(nx, ny) /\ g.map[<<nx, ny>>] \in {"DoorClosed", "DoorOpen"}
  \/ Cardinality({d \in Range(Dirs4) : IsWalkable(g.map, g.px + d[1], g.py + d[2])}) > 2
  \/ g.stairs = <<nx, ny>>
  \/ g.stairsUp = <<nx, ny>>

RECURSIVE QueueAction(_, _)

\* _doPathStep
DoPathStep(g) ==
  IF g.autoPath = <<>> \/ g.status # "playing" THEN {Done(g)}
  ELSE
    LET next == g.autoPath[1]
        dx == next[1] - g.px
        dy == next[2] - g.py
        isDoor == InBounds(next[1], next[2]) /\ g.map[next] = "DoorClosed"
        g1 == [g EXCEPT !.autoPath = Tail(@), !.pathStepDir = <<dx, dy>>,
                        !.isPathAction = TRUE]
    IN IF /\ ~IsWalkable(g.map, next[1], next[2]) /\ ~isDoor
          /\ GetMonsterAt(g, next[1], next[2]) = 0
         THEN {Done([g EXCEPT !.autoPath = <<>>])}
       ELSE IF <<dx, dy>> \notin Range(Dirs8)
         THEN {Done([g EXCEPT !.autoPath = <<>>])}
       ELSE {IF o.start THEN [o EXCEPT !.frames = Append(@, "pathOff")]
             ELSE [o EXCEPT !.g.isPathAction = FALSE]
               : o \in QueueAction(g1, "path_step")}

\* startPathTo(tx, ty)
StartPathTo(g, tx, ty) ==
  LET Walk(res) ==
        IF ~res.found \/ res.path = <<>> THEN {Done(Log(g, "noPath"))}
        ELSE {IF o.start THEN [o EXCEPT !.frames = Append(@, "pathOff")]
              ELSE [o EXCEPT !.g.isPathAction = FALSE]
                : o \in DoPathStep([g EXCEPT !.autoRun.active = FALSE,
                                             !.isPathAction = TRUE,
                                             !.autoPath = res.path])}
  IN IF g.status # "playing" THEN {Done(g)}
     ELSE Walk(BfsPath(g.map, g.px, g.py, tx, ty))

\* autoExplore
AutoExplore(g) ==
  LET Go(target) ==
        IF target # NoCell THEN StartPathTo(g, target[1], target[2])
        ELSE {Done([Log(g, "fullyExplored") EXCEPT !.autoPath = <<>>])}
  IN IF g.status # "playing" THEN {Done(g)}
     ELSE Go(FindNearestUnexplored(g.map, g.explored, g.px, g.py))

\* _processPlayerAction
ProcessPlayerAction(g, action) ==
  LET Plain(S) == {Done(h) : h \in S}
  IN CASE action \in DOMAIN MoveDir ->
            Plain(ProcessMovement(g, MoveDir[action][1], MoveDir[action][2]))
       [] action = "auto_step" -> Plain(ProcessMovement(g, g.autoRun.dx, g.autoRun.dy))
       [] action = "path_step" ->
            Plain(ProcessMovement(g, g.pathStepDir[1], g.pathStepDir[2]))
       [] action \in DOMAIN CastKey -> Plain(CastSpell(g, CastKey[action]))
       [] action = "descend" -> Plain(TryDescend(g))
       [] action = "ascend" -> Plain(TryAscend(g))
       [] action = "wait" -> Plain({g})
       [] action = "pickup" -> Plain({PickupItem(g)})
       [] action = "auto_explore" -> AutoExplore(g)
       [] action = "search" -> Plain(SearchWalls(g))
       [] OTHER -> Plain({g})

\* queueAction(action)
QueueAction(g, action) ==
  IF g.status # "playing" THEN {Done(g)}
  ELSE
    LET g1 == IF g.autoRun.active /\ action # "auto_step"
                THEN [g EXCEPT !.autoRun.active = FALSE] ELSE g
        g2 == IF g1.autoPath # <<>> /\ action # "path_step" /\ ~g1.isPathAction
                THEN [g1 EXCEPT !.autoPath = <<>>] ELSE g1
    IN IF g2.char.energy >= ActionCost
         THEN {IF o.start
                 THEN [o EXCEPT !.frames = Append(@, "queueTail"), !.acc = @ + 1]
                 ELSE [o EXCEPT !.g.char.energy = @ - ActionCost, !.start = TRUE,
                                !.acc = @ + 1, !.subs = @ + 1]
                 : o \in ProcessPlayerAction(g2, action)}
         ELSE {Done(g2)}

\* _doAutoStep
DoAutoStep(g) ==
  IF ~g.autoRun.active \/ g.status # "playing" THEN {Done(g)}
  ELSE
    LET nx == g.px + g.autoRun.dx
        ny == g.py + g.autoRun.dy
    IN IF ShouldInterruptAutoRun(g, nx, ny)
         THEN {Done([g EXCEPT !.autoRun.active = FALSE])}
       ELSE IF IsWalkable(g.map, nx, ny) /\ GetMonsterAt(g, nx, ny) = 0
         THEN QueueAction(g, "auto_step")
       ELSE {Done([g EXCEPT !.autoRun.active = FALSE])}

\* startAutoRun(dx, dy)
StartAutoRun(g, dx, dy) ==
  IF g.status # "playing" THEN {Done(g)}
  ELSE DoAutoStep([g EXCEPT !.autoRun = [active |-> TRUE, dx |-> dx, dy |-> dy]])

-----------------------------------------------------------------------------
(* The scheduler.  ctl is the position of the program:                      *)
(*   pc      "idle": no call is running, the next event is a user call or a *)
(*           timer; "iter": at the head of the while loop of                 *)
(*           processTurnLoop                                                 *)
(*   safety  the local counter of the running processTurnLoop                *)
(*   frames  what the callers on the stack do when the loop returns          *)
(* and, about the call that began the drain loop that runs or ran last:      *)
(*   op      the public call or timer callback                               *)
(*   acc, subs, loops   actions accepted, subtractions of ActionCost and     *)
(*           drain loops begun in it                                         *)
(*   ended   how its last drain loop returned, and endEnergy the energy of   *)
(*           the player at that moment                                       *)
(*   fired   [id, energy, speed] of the monsters whose action fired in the   *)
(*           last step, with the energy left right after the action          *)
(* The drain loop is stepped from one round with a monster action to the     *)
(* next: rounds in which no monster acts have one outcome and are run        *)
(* together with the round that follows.                                     *)

Idle(op) ==
  [pc |-> "idle", safety |-> 0, frames |-> <<>>, op |-> op, acc |-> 0,
   subs |-> 0, loops |-> 0, ended |-> "none", endEnergy |-> 0, fired |-> {}]

EntityKeys(g) == [i \in 1 .. Len(g.entities) |-> g.entities[i].id]

\* the return of a drain loop to the callers on the stack: [g, c] after them
RECURSIVE Unwind(_, _)
Unwind(g, c) ==
  IF c.frames = <<>> THEN [g |-> g, c |-> [c EXCEPT !.pc = "idle"]]
  ELSE IF Head(c.frames) = "pathOff"
    THEN Unwind([g EXCEPT !.isPathAction = FALSE], [c EXCEPT !.frames = Tail(@)])
  ELSE \* "queueTail": character.energy -= 100; processTurnLoop()
    [g |-> [g EXCEPT !.char.energy = @ - ActionCost],
     c |-> [c EXCEPT !.pc = "iter", !.safety = 0, !.frames = Tail(@),
                     !.subs = @ + 1, !.loops = @ + 1]]

\* the end of one round of the while loop: the cooldowns tick
EndIteration(g) ==
  [g EXCEPT !.char.spellCooldowns =
              [k \in DOMAIN @ |-> IF @[k] > 0 THEN @[k] - 1 ELSE @[k]]]

RECURSIVE MonsterTurn(_, _, _)
\* the inner while loop of processTurnLoop for the monster with this id:
\* the set of [g, aborted, fired], aborted when the status stopped being playing
MonsterTurn(g, id, fired) ==
  LET i == IdxOf(g, id)
      Acted(h) == [h EXCEPT !.entities[i].energy = @ - ActionCost]
      Mark(h) == fired \cup {[id |-> id, energy |-> Acted(h).entities[i].energy,
                              speed |-> h.entities[i].speed]}
  IN IF g.entities[i].energy >= ActionCost
       THEN UNION { IF Acted(h).status # "playing"
                      THEN {[g |-> Acted(h), aborted |-> TRUE, fired |-> Mark(h)]}
                      ELSE MonsterTurn(Acted(h), id, Mark(h))
                    : h \in ProcessMonsterAI(g, i) }
       ELSE {[g |-> g, aborted |-> FALSE, fired |-> fired]}

RECURSIVE Round(_, _, _)
\* the for-in loop of processTurnLoop over the ids still to visit
Round(g, keys, fired) ==
  IF keys = <<>> THEN {[g |-> g, aborted |-> FALSE, fired |-> fired]}
  ELSE LET i == IdxOf(g, Head(keys))
           g1 == [g EXCEPT !.entities[i].energy = @ + g.entities[i].speed]
       IN UNION { IF r.aborted THEN {r} ELSE Round(r.g, Tail(keys), r.fired)
                  : r \in MonsterTurn(g1, Head(keys), fired) }

RECURSIVE RunRounds(_, _)
\* the rounds of the while loop up to and including the first in which a
\* monster acts, or up to the end of the loop: the set of [g, safety, aborted, fired]
RunRounds(g, safety) ==
  IF ~(g.char.energy < ActionCost /\ safety < SafetyCap)
    THEN {[g |-> g, safety |-> safety, aborted |-> FALSE, fired |-> {}]}
  ELSE LET g1 == [g EXCEPT !.tick = @ + 1, !.char.energy = @ + g.char.speed]
       IN UNION { IF r.aborted
                    THEN {[g |-> r.g, safety |-> safety, aborted |-> TRUE, fired |-> r.fired]}
                  ELSE IF r.fired = {}
                    THEN RunRounds(EndIteration(r.g), safety + 1)
                  ELSE {[g |-> EndIteration(r.g), safety |-> safety + 1,
                         aborted |-> FALSE, fired |-> r.fired]}
                  : r \in Round(g1, EntityKeys(g1), {}) }

\* the player has no action ready and nothing is running that would give one
SoftLocked == game.status = "playing" /\ game.char.energy < ActionCost

\* a user call or timer callback op with outcome o runs up to its first drain
\* loop or to its return.  A call that changes the game uses one of MaxTurns,
\* unless the player has no action ready; a behaviour enters MaxGens levels.
Begin(o, op) ==
  /\ ctl.pc = "idle"
  /\ o.g = game \/ turns < MaxTurns \/ SoftLocked
  /\ o.g.gens <= MaxGens
  /\ game' = o.g
  /\ turns' = IF o.g = game \/ SoftLocked THEN turns ELSE turns + 1
  /\ ctl' = IF o.start
              THEN [pc |-> "iter", safety |-> 0, frames |-> o.frames, op |-> op,
                    acc |-> o.acc, subs |-> o.subs, loops |-> 1, ended |-> "none",
                    endEnergy |-> 0, fired |-> {}]
              ELSE ctl

NewCall(g) == [g EXCEPT !.logged = {}]

\* queueAction(action) called by the user interface
SubmitAction(action) ==
  \E o \in QueueAction(NewCall(game), action) : Begin(o, "submitAction")

\* startAutoRun(dx, dy) called by the user interface
UserAutoRun(d) ==
  \E o \in StartAutoRun(NewCall(game), d[1], d[2]) : Begin(o, "startAutoRun")

\* startPathTo(tx, ty) called by the user interface
UserPathTo(t) ==
  \E o \in StartPathTo(NewCall(game), t[1], t[2]) : Begin(o, "startPathTo")

\* autoExplore() called by the user interface
UserAutoExplore ==
  \E o \in AutoExplore(NewCall(game)) : Begin(o, "autoExplore")

\* useInventoryItem(idx - 1) called by the user interface
UserUseItem(idx) ==
  \E h \in UseInventoryItem(NewCall(game), idx) : Begin(Done(h), "useInventoryItem")

\* dropItem(idx - 1) called by the user interface
UserDropItem(idx) ==
  Begin(Done(DropItem(NewCall(game), idx)), "dropItem")

\* the oldest pending setTimeout callback runs
FireTimer ==
  /\ game.timers # <<>>
  /\ LET g == [NewCall(game) EXCEPT !.timers = Tail(@)]
     IN IF Head(game.timers) = "auto"
          THEN \E o \in DoAutoStep(g) : Begin(o, "autoTimer")
          ELSE \E o \in DoPathStep(g) : Begin(o, "pathTimer")

\* the while loop of processTurnLoop runs to its next monster action
LoopRun ==
  /\ ctl.pc = "iter"
  /\ game.char.energy < ActionCost /\ ctl.safety < SafetyCap
  /\ \E r \in RunRounds(game, ctl.safety) :
       \E c1 \in {[ctl EXCEPT !.safety = r.safety, !.fired = r.fired]} :
         IF r.aborted
           THEN \E u \in {Unwind(r.g, [c1 EXCEPT !.ended = "aborted",
                                                 !.endEnergy = r.g.char.energy])} :
                  game' = u.g /\ ctl' = u.c
           ELSE game' = r.g /\ ctl' = c1
  /\ UNCHANGED turns

\* the while loop of processTurnLoop ends: visibility, then the continuations
LoopExit ==
  /\ ctl.pc = "iter"
  /\ ~(game.char.energy < ActionCost /\ ctl.safety < SafetyCap)
  /\ \E g1 \in {UpdateVisibility(game)} :
       \E g3 \in {[g1 EXCEPT !.timers = @ \o (IF g1.autoRun.active THEN <<"auto">> ELSE <<>>)
                                          \o (IF g1.autoPath # <<>> THEN <<"path">> ELSE <<>>)]} :
         \E u \in {Unwind(g3, [ctl EXCEPT !.ended = "completed", !.fired = {},
                                          !.endEnergy = g3.char.energy])} :
           game' = u.g /\ ctl' = u.c
  /\ UNCHANGED turns

-----------------------------------------------------------------------------
(* Initial states.  The first is the game as the constructor leaves it      *)
(* (generateLevel(1), then startLoop).  The others are games met later in a *)
(* session, so that the cases that need a long history lie within the turn  *)
(* bound: each is a level of the generator with a character, monsters and   *)
(* items that play can produce.                                              *)

\* the object before initialize()
Blank(cls) ==
  [status |-> "playing", tick |-> 0, map |-> [c \in Cells |-> "Wall"],
   visibility |-> {}, explored |-> {}, px |-> 0, py |-> 0, rot |-> 0,
   entities |-> <<>>, items |-> <<>>, stairs |-> NoCell, stairsUp |-> NoCell,
   currentLevel |-> 1, cls |-> cls, char |-> InitialCharacter(cls),
   autoRun |-> [active |-> FALSE, dx |-> 0, dy |-> 0], autoPath |-> <<>>,
   isPathAction |-> FALSE, pathStepDir |-> <<0, 0>>, traps |-> <<>>,
   identifiedPotions |-> {}, nextEntityId |-> 100, timers |-> <<>>, gens |-> 0,
   logged |-> {}, gameOvers |-> 0, lastOver |-> "none", trapEvents |-> 0]

RECURSIVE DrainAlone(_, _)
\* processTurnLoop on a level without monsters, up to its updateVisibility
DrainAlone(g, safety) ==
  IF g.char.energy < ActionCost /\ safety < SafetyCap
    THEN DrainAlone(EndIteration([g EXCEPT !.tick = @ + 1,
                                           !.char.energy = @ + g.char.speed]),
                    safety + 1)
    ELSE UpdateVisibility(g)

\* new RoguelikeGame({width, height, class}): depth 1 has no monsters at this size
Fresh(cls, seed) ==
  [DrainAlone(GenerateLevelSeed(Blank(cls), 1, seed), 0) EXCEPT !.gens = 0]

\* a character of this class with this much experience
Veteran(cls, xp) == CheckLevelUp([Blank(cls) EXCEPT !.char.xp = xp]).char

\* every tile a player who has walked the whole level has seen
SeenFromEverywhere(map) ==
  UNION {LitCells(map, c[1], c[2]) : c \in {d \in Cells : IsWalkable(map, d[1], d[2])}}

\* Depth 1, everything walked.  A level-9 warrior (101 hit points) stands in
\* the first room with the action ready; a floating eye called by a scroll of
\* summoning is next to the tile east of the player.
Paralysis ==
  LET On(g) ==
        [g EXCEPT !.px = 1, !.py = 2, !.rot = 270,
                  !.char = [Veteran("warrior", 1200) EXCEPT !.energy = ActionCost, !.kills = 40],
                  !.items = <<>>,
                  !.entities = << [SummonedMonster(110, "floatingEye", 2, 1)
                                     EXCEPT !.energy = 50] >>,
                  !.nextEntityId = 140, !.tick = 4000,
                  !.explored = SeenFromEverywhere(g.map),
                  !.visibility = LitCells(g.map, 1, 2)]
  IN On(Fresh("warrior", 0))

\* the tiles seen from the tiles of a walk
SeenFrom(map, walk) == UNION {LitCells(map, c[1], c[2]) : c \in walk}

\* Depth 2, no door, a pit trap in the corner of the first room.  A warrior
\* with 3 hit points left stands on the stairs up, south of the trap; a kobold
\* called by a scroll of summoning is near.  The inventory holds a scroll of
\* teleportation and two unknown potions.
Danger ==
  LET traps == << [x |-> 2, y |-> 1, type |-> "pit", revealed |-> FALSE],
                  [x |-> 6, y |-> 3, type |-> "confusion", revealed |-> FALSE] >>
      map == [c \in Cells |-> IF c \in {<<2, 1>>, <<6, 3>>} THEN "TrapHidden"
                              ELSE CarvedMap(FALSE)[c]]
      inv == << [Scroll("teleport") EXCEPT !.id = 104],
                [Potion("poisonPotion", {}) EXCEPT !.id = 105],
                [Potion("healPotion", {}) EXCEPT !.id = 106] >>
  IN [Blank("warrior") EXCEPT
        !.currentLevel = 2, !.map = map, !.traps = traps,
        !.px = 2, !.py = 2, !.rot = 90, !.stairs = <<5, 1>>, !.stairsUp = <<2, 2>>,
        !.char.hp = 3, !.char.energy = ActionCost, !.char.inventory = inv,
        !.entities = << [SummonedMonster(112, "kobold", 1, 1) EXCEPT !.energy = 90] >>,
        !.nextEntityId = 115, !.tick = 800,
        !.explored = SeenFrom(map, {<<1, 3>>, <<2, 2>>}),
        !.visibility = LitCells(map, 2, 2)]

\* Depth 15, the last level, with its ten traps.  A level-20 warrior stands in
\* the second room next to Morgoth, who has one hit point left.
Final ==
  LET At(g, spot) ==
        [g EXCEPT !.px = spot[1], !.py = spot[2], !.rot = 90,
                  !.char = [Veteran("warrior", 55000) EXCEPT !.energy = ActionCost, !.hp = 60,
                                                             !.kills = 300],
                  !.entities = << [SpawnedBoss(402, "morgoth", spot[1] + 1, spot[2])
                                     EXCEPT !.hp = 1, !.energy = 20] >>,
                  !.nextEntityId = 420, !.tick = 90000,
                  !.explored = SeenFromEverywhere(g.map),
                  !.visibility = LitCells(g.map, spot[1], spot[2])]
      On(g) ==
        At(g, Draw({c \in RoomCells(Rooms[2]) :
                      g.map[c] = "Floor" /\ IsWalkable(g.map, c[1] + 1, c[2])}, 0))
  IN On([GenerateLevelSeed([Blank("warrior") EXCEPT !.nextEntityId = 400], MaxLevel, 0)
           EXCEPT !.gens = 0, !.items = <<>>])

\* the scenarios, with the turns each has already used of the bound: the
\* paralysis lasts a thousand rounds and the last fight is one blow, so each
\* of them gets a single turn
Scenarios ==
  {[g |-> Fresh("warrior", seed), used |-> 0] : seed \in 0 .. MaxSeed}
  \cup {[g |-> Paralysis, used |-> MaxTurns - 1]}
  \cup {[g |-> Danger, used |-> 0]}
  \cup {[g |-> Final, used |-> MaxTurns - 1]}

Init ==
  \E sc \in Scenarios :
    /\ game = sc.g
    /\ ctl = Idle("constructor")
    /\ turns = sc.used

\* the targets of startPathTo the model follows: a tile of each room, a wall
\* next to a room, a wall no room touches
PathTargets == {<<6, 2>>, <<1, 2>>, <<7, 2>>, <<0, 0>>}

\* the inventory indices the model follows: below, inside and beyond the list
MaxIndex == 3

Next ==
  \/ \E a \in UserActions : SubmitAction(a)
  \/ \E d \in Range(Dirs4) : UserAutoRun(d)
  \/ \E t \in PathTargets : UserPathTo(t)
  \/ UserAutoExplore
  \/ \E idx \in 0 .. MaxIndex : UserUseItem(idx)
  \/ \E idx \in 0 .. MaxIndex : UserDropItem(idx)
  \/ FireTimer
  \/ LoopRun
  \/ LoopExit

Spec == Init /\ [][Next]_vars


-----------------------------------------------------------------------------
(* _bfsPath on its own.  The grids are every pattern of floor and wall in a *)
(* window around the source, the levels of the generator with their traps  *)
(* and doors, and a level with each kind of tile in its corridor; the      *)
(* sources are a tile of each room; every tile of the grid is a target.    *)

\* width of the window of floor and wall patterns (its height is 3)
WindowWidth == 3

BfsWindow == (1 .. WindowWidth) \X (1 .. 3)

PatternGrids == {[c \in Cells |-> IF c \in F THEN "Floor" ELSE "Wall"] : F \in SUBSET BfsWindow}

LevelGrids ==
  {Generate(levelNum, seed).map : levelNum \in {1, MaxLevel}, seed \in 0 .. MaxSeed}
  \cup {[CarvedMap(FALSE) EXCEPT ![DoorSpot] = tile] : tile \in Tiles}

BfsSources(map) ==
  IF map \in PatternGrids THEN {<<2, 2>>} ELSE {<<1, 1>>, <<5, 2>>}

\* no call of _bfsPath has been made
BfsReady == [pc |-> "ready", tgt |-> NoCell, res |-> NoPath]

InitBfs ==
  /\ \E map \in PatternGrids \cup LevelGrids : \E s \in BfsSources(map) :
       game = [Blank("warrior") EXCEPT !.map = map, !.px = s[1], !.py = s[2]]
  /\ ctl = BfsReady
  /\ turns = 0

\* _bfsPath(player.x, player.y, tx, ty), as startPathTo calls it
BfsCall(t) ==
  /\ ctl.pc = "ready"
  /\ ctl' = [pc |-> "returned", tgt |-> t,
             res |-> BfsPath(game.map, game.px, game.py, t[1], t[2])]
  /\ UNCHANGED <<game, turns>>

NextBfs == \E t \in Cells : BfsCall(t)

SpecBfs == InitBfs /\ [][NextBfs]_vars

-----------------------------------------------------------------------------
(* autoExplore on its own: the user interface calls autoExplore() and the   *)
(* walk it starts goes on.  The games are those of Scenarios at depths 1    *)
(* and 2 with the player on any free walkable tile, having seen what that   *)
(* tile shows (as on arrival), every tile a walk can see, or with explored  *)
(* entirely set.                                                            *)

\* the game g with the player on tile c and explored holding e and the view
PlacedAt(g, c, e) ==
  LET Seen(lit) == [g EXCEPT !.px = c[1], !.py = c[2], !.visibility = lit,
                             !.explored = e \cup lit]
  IN Seen(LitCells(g.map, c[1], c[2]))

ExploreGames ==
  UNION {{PlacedAt(g, c, e) :
            c \in {d \in Cells : IsWalkable(g.map, d[1], d[2])
                                 /\ GetMonsterAt(g, d[1], d[2]) = 0},
            e \in {{}, SeenFromEverywhere(g.map), Cells}} :
         g \in {Fresh("warrior", seed) : seed \in 0 .. MaxSeed} \cup {Paralysis, Danger}}

InitExplore ==
  /\ game \in ExploreGames
  /\ ctl = Idle("constructor")
  /\ turns = 0

NextExplore ==
  \/ UserAutoExplore
  \/ FireTimer
  \/ LoopRun
  \/ LoopExit

SpecExplore == InitExplore /\ [][NextExplore]_vars

-----------------------------------------------------------------------------
(* A wandering monster on its own.  The level is depth 3 as generateLevel   *)
(* leaves it for seed 1: a closed door between the rooms, a teleport trap   *)
(* and an alarm trap in the second room, a floating eye (ai wander) as the  *)
(* first monster.  The other monsters of the level are dead, the door is    *)
(* closed or has been opened, the eye has wandered to any walkable tile and *)
(* its action is almost ready; the player stands in either room with the    *)
(* action ready.                                                            *)

\* the level for this seed of the generator, the first monster alone on it
WatchLevel(seed) ==
  LET Alone(g) ==
        [g EXCEPT !.gens = 0, !.tick = 2000,
                  !.char = [Veteran("warrior", 300) EXCEPT !.energy = ActionCost, !.kills = 9],
                  !.entities = << g.entities[1] >>]
  IN Alone(GenerateLevelSeed([Blank("warrior") EXCEPT !.nextEntityId = 200], 3, seed))

WatchStarts == {<<4, 3>>, <<6, 1>>, <<2, 2>>}

\* the level with the door in this state, the player on p and the eye on c
Watched(g, door, p, c) ==
  PlacedAt([g EXCEPT !.map = [@ EXCEPT ![DoorSpot] = door],
                     !.entities = << [@[1] EXCEPT !.x = c[1], !.y = c[2], !.energy = 90] >>],
           p, g.explored)

WatchGames ==
  {Watched(WatchLevel(1), door, p, c) :
     door \in {"DoorClosed", "DoorOpen"},
     p \in WatchStarts,
     c \in {d \in Cells : IsWalkable(Generate(3, 1).map, d[1], d[2])}}

InitWatch ==
  /\ game \in {g \in WatchGames : <<g.entities[1].x, g.entities[1].y>> # <<g.px, g.py>>}
  /\ ctl = Idle("constructor")
  /\ turns = MaxTurns - 1

NextWatch ==
  \/ \E a \in DOMAIN MoveDir \cup {"wait"} : SubmitAction(a)
  \/ LoopRun
  \/ LoopExit

SpecWatch == InitWatch /\ [][NextWatch]_vars

-----------------------------------------------------------------------------
(* A full pack.  The level is depth 1 as the constructor leaves it for seed *)
(* 0 (a potion of poison, a dagger and a scroll of identify on the ground,  *)
(* the stairs in the second room), the player has picked items up on the    *)
(* levels before: two scrolls of identify and three unknown potions of      *)
(* healing; or potions of two kinds, two of them of the same kind; or a     *)
(* second dagger and an armour, with a cursed dagger in hand.  The player   *)
(* stands on the start tile or on the stairs, alone or with a kobold at its *)
(* last hit point on the next tile.                                         *)

\* the items with the ids from first on, in this order
Numbered(items, first) ==
  [i \in 1 .. Len(items) |-> [items[i] EXCEPT !.id = first + i - 1]]

\* what the equipment branch of useInventoryItem leaves in the slot
Worn(item) ==
  [item EXCEPT !.identified = TRUE, !.name = IF item.bonus # 0 THEN "bonus" ELSE @]

Packs ==
  { [inv |-> << Scroll("identify"), Scroll("identify"), Potion("healPotion", {}),
                Potion("healPotion", {}), Potion("healPotion", {}) >>,
     weapon |-> NoItem],
    [inv |-> << Potion("poisonPotion", {}), Potion("poisonPotion", {}),
                Potion("healPotion", {}) >>,
     weapon |-> NoItem],
    [inv |-> << Equipment("dagger", 1), Equipment("leatherArmor", 0),
                Potion("healPotion", {}) >>,
     weapon |-> [Worn(Equipment("dagger", -1)) EXCEPT !.id = 310] ] }

PackStarts == {<<1, 1>>, <<5, 1>>}

\* the level with this pack, the player on p, the kobold there or not
Packed(g, pack, p, foe) ==
  PlacedAt([g EXCEPT !.char.inventory = Numbered(pack.inv, 301),
                     !.char.equipment.weapon = pack.weapon,
                     !.char.energy = ActionCost,
                     !.entities = IF foe
                                    THEN << [SummonedMonster(311, "kobold", p[1] + 1, p[2])
                                               EXCEPT !.hp = 1, !.energy = 50] >>
                                    ELSE <<>>,
                     !.nextEntityId = 320, !.tick = 500],
           p, g.explored)

PackGames ==
  {Packed(Fresh("warrior", 0), pack, p, foe) :
     pack \in Packs, p \in PackStarts, foe \in BOOLEAN}

InitItems ==
  /\ game \in PackGames
  /\ ctl = Idle("constructor")
  /\ turns = 0

\* the action tags that move items or the player
ItemActions == DOMAIN MoveDir \cup {"pickup", "descend", "wait"}

NextItems ==
  \/ \E a \in ItemActions : SubmitAction(a)
  \/ \E idx \in 0 .. MaxIndex : UserUseItem(idx)
  \/ \E idx \in 0 .. MaxIndex : UserDropItem(idx)
  \/ LoopRun
  \/ LoopExit

SpecItems == InitItems /\ [][NextItems]_vars

-----------------------------------------------------------------------------
(* DungeonGenerator.generate on its own, for the rooms it returns.  game is *)
(* the result under construction (map, rooms, secretDoors), ctl holds the   *)
(* arguments and the position in generate.  Math.random is a free choice of *)
(* each draw.  _placeDoors and _placeTraps rewrite FLOOR tiles only (into   *)
(* DOOR_CLOSED and TRAP_HIDDEN), which the footprint test of                *)
(* _placeSecretRoom does not tell from FLOOR: those tiles stay Floor here.  *)
(* _placePortals runs from depth 3 on.                                      *)

\* the requested sizes <<width, height>> and depths the model follows
GenSizes == {<<15, 9>>, <<4, 9>>}
GenLevels == {1, 2}

\* the attempts of _generateRooms the model follows (200 in the code)
GenAttempts == 3

\* Math.floor(Math.random() * n) for an integer n
RandTimes(n) == IF n > 0 THEN 0 .. n - 1 ELSE n .. 0

\* _createSolidMap
CreateSolidMap(width, height) ==
  [c \in (0 .. width - 1) \X (0 .. height - 1) |-> "Wall"]

\* the overlap test of _generateRooms, with its 1-tile buffer
RoomOverlaps(x, y, w, h, r) ==
  /\ x - 1 < r.x + r.w /\ x + w + 1 > r.x
  /\ y - 1 < r.y + r.h /\ y + h + 1 > r.y

\* one pass of the while loop of _generateRooms with these draws
GenerateRoomsPass(res, mapW, mapH, w, h, x, y) ==
  IF \E i \in 1 .. Len(res.rooms) : RoomOverlaps(x, y, w, h, res.rooms[i])
    THEN res
    ELSE [res EXCEPT
            !.map = [c \in DOMAIN @ |->
                       IF /\ c[1] >= x /\ c[1] < x + w /\ c[1] < mapW - 1
                          /\ c[2] >= y /\ c[2] < y + h /\ c[2] < mapH - 1
                         THEN "Floor" ELSE @[c]],
            !.rooms = Append(@, [x |-> x, y |-> y, w |-> w, h |-> h, secret |-> FALSE])]

\* _carveHCorridor
CarveHCorridor(map, x1, x2, y, mapW, mapH) ==
  [c \in DOMAIN map |->
     IF /\ c[2] = y /\ c[1] >= Min(x1, x2) /\ c[1] <= Max(x1, x2)
        /\ y > 0 /\ y < mapH - 1 /\ c[1] > 0 /\ c[1] < mapW - 1
        /\ map[c] = "Wall"
       THEN "Floor" ELSE map[c]]

\* _carveVCorridor
CarveVCorridor(map, y1, y2, x, mapW, mapH) ==
  [c \in DOMAIN map |->
     IF /\ c[1] = x /\ c[2] >= Min(y1, y2) /\ c[2] <= Max(y1, y2)
        /\ c[2] > 0 /\ c[2] < mapH - 1 /\ x > 0 /\ x < mapW - 1
        /\ map[c] = "Wall"
       THEN "Floor" ELSE map[c]]

RoomCentre(r) == <<r.x + r.w \div 2, r.y + r.h \div 2>>

RECURSIVE ExtraCorridors(_, _, _, _, _)
\* the second loop of _connectRooms, n corridors still to come
ExtraCorridors(map, rooms, n, mapW, mapH) ==
  IF n = 0 THEN {map}
  ELSE UNION {ExtraCorridors(
                IF i = j THEN map
                ELSE CarveVCorridor(
                       CarveHCorridor(map, RoomCentre(rooms[i])[1], RoomCentre(rooms[j])[1],
                                      RoomCentre(rooms[i])[2], mapW, mapH),
                       RoomCentre(rooms[i])[2], RoomCentre(rooms[j])[2],
                       RoomCentre(rooms[j])[1], mapW, mapH),
                rooms, n - 1, mapW, mapH)
              : i \in 1 .. Len(rooms), j \in 1 .. Len(rooms)}

RECURSIVE ConnectFrom(_, _, _, _, _)
\* the first loop of _connectRooms from room i on, then the second
ConnectFrom(map, rooms, i, mapW, mapH) ==
  IF i > Len(rooms) - 1
    THEN ExtraCorridors(map, rooms, (Len(rooms) * 3) \div 10, mapW, mapH)
    ELSE LET a == RoomCentre(rooms[i])
             b == RoomCentre(rooms[i + 1])
             hFirst == CarveVCorridor(CarveHCorridor(map, a[1], b[1], a[2], mapW, mapH),
                                      a[2], b[2], b[1], mapW, mapH)
             vFirst == CarveHCorridor(CarveVCorridor(map, a[2], b[2], a[1], mapW, mapH),
                                      a[1], b[1], b[2], mapW, mapH)
         IN ConnectFrom(hFirst, rooms, i + 1, mapW, mapH)
              \cup ConnectFrom(vFirst, rooms, i + 1, mapW, mapH)

\* _connectRooms: the maps it can leave
ConnectRooms(map, rooms, mapW, mapH) == ConnectFrom(map, rooms, 1, mapW, mapH)

\* the draws of one attempt of _placeSecretRoom: the corner of the room and
\* the door, for this room, side and size
SecretSpots(room, side, secretW, secretH) ==
  CASE side = 0 ->
         {[sx |-> room.x + k, sy |-> room.y - secretH - 1,
           doorX |-> room.x + k + secretW \div 2, doorY |-> room.y - 1]
            : k \in RandTimes(Max(1, room.w - secretW))}
    [] side = 1 ->
         {[sx |-> room.x + k, sy |-> room.y + room.h + 1,
           doorX |-> room.x + k + secretW \div 2, doorY |-> room.y + room.h]
            : k \in RandTimes(Max(1, room.w - secretW))}
    [] side = 2 ->
         {[sx |-> room.x - secretW - 1, sy |-> room.y + k,
           doorX |-> room.x - 1, doorY |-> room.y + k + secretH \div 2]
            : k \in RandTimes(Max(1, room.h - secretH))}
    [] OTHER ->
         {[sx |-> room.x + room.w + 1, sy |-> room.y + k,
           doorX |-> room.x + room.w, doorY |-> room.y + k + secretH \div 2]
            : k \in RandTimes(Max(1, room.h - secretH))}

\* an attempt of _placeSecretRoom with these draws passes the bounds checks
\* and finds its footprint all WALL
SecretFits(map, mapW, mapH, t, secretW, secretH) ==
  /\ ~(t.sx < 1 \/ t.sy < 1 \/ t.sx + secretW >= mapW - 1 \/ t.sy + secretH >= mapH - 1)
  /\ ~(t.doorX < 1 \/ t.doorY < 1 \/ t.doorX >= mapW - 1 \/ t.doorY >= mapH - 1)
  /\ \A x \in t.sx .. t.sx + secretW - 1 : \A y \in t.sy .. t.sy + secretH - 1 :
       map[<<x, y>>] = "Wall"

\* _placeSecretRoom: the results of its first successful attempt
PlaceSecretRoom(res, mapW, mapH) ==
  LET Carved(t, secretW, secretH) ==
        [res EXCEPT
           !.map = [c \in DOMAIN @ |->
                      IF c = <<t.doorX, t.doorY>> THEN "SecretWall"
                      ELSE IF /\ c[1] >= t.sx /\ c[1] < t.sx + secretW
                              /\ c[2] >= t.sy /\ c[2] < t.sy + secretH
                             THEN "Floor" ELSE @[c]],
           !.secretDoors = Append(@, <<t.doorX, t.doorY>>),
           !.rooms = Append(@, [x |-> t.sx, y |-> t.sy, w |-> secretW, h |-> secretH,
                                secret |-> TRUE])]
      Tries(i, side, secretW, secretH) ==
        {Carved(t, secretW, secretH) :
           t \in {u \in SecretSpots(res.rooms[i], side, secretW, secretH) :
                    SecretFits(res.map, mapW, mapH, u, secretW, secretH)}}
  IN UNION {Tries(q[1], q[2], q[3], q[4]) :
              q \in (1 .. Len(res.rooms)) \X (0 .. 3) \X (3 .. 5) \X (3 .. 5)}

\* generate has made its solid map
InitGen ==
  /\ \E size \in GenSizes : \E levelNum \in GenLevels :
       /\ game = [map |-> CreateSolidMap(size[1], size[2]), rooms |-> <<>>,
                  secretDoors |-> <<>>, player |-> NoCell, stairs |-> NoCell]
       /\ ctl = [pc |-> "rooms", width |-> size[1], height |-> size[2],
                 levelNum |-> levelNum, attempts |-> 0]
  /\ turns = 0

\* minRoomSize, maxRoomSize and roomCount of generate
MinRoomSize == 4
MaxRoomSize(width, height) == Min(12, Min(width, height) \div 3)
RoomCount(levelNum) == Min(12, 4 + (levelNum * 8) \div 10)

\* the while loop of _generateRooms goes on
RoomsWanted ==
  Len(game.rooms) < RoomCount(ctl.levelNum) /\ ctl.attempts < GenAttempts

\* one pass of the while loop of _generateRooms
GenerateRoomsStep ==
  /\ ctl.pc = "rooms" /\ RoomsWanted
  /\ \E w \in {MinRoomSize + k : k \in RandTimes(MaxRoomSize(ctl.width, ctl.height) - MinRoomSize + 1)} :
     \E h \in {MinRoomSize + k : k \in RandTimes(MaxRoomSize(ctl.width, ctl.height) - MinRoomSize + 1)} :
     \E x \in {1 + k : k \in RandTimes(ctl.width - w - 2)} :
     \E y \in {1 + k : k \in RandTimes(ctl.height - h - 2)} :
       game' = GenerateRoomsPass(game, ctl.width, ctl.height, w, h, x, y)
  /\ ctl' = [ctl EXCEPT !.attempts = @ + 1]
  /\ UNCHANGED turns

\* _generateRooms returns; _connectRooms
ConnectRoomsStep ==
  /\ ctl.pc = "rooms" /\ ~RoomsWanted
  /\ \E map \in ConnectRooms(game.map, game.rooms, ctl.width, ctl.height) :
       game' = [game EXCEPT !.map = map]
  /\ ctl' = [ctl EXCEPT !.pc = "connected"]
  /\ UNCHANGED turns

\* the rest of generate: the secret room, if the depth and the draw have it
\* and an attempt succeeds; generate returns
SecretRoomStep ==
  /\ ctl.pc = "connected"
  /\ \/ game' = game
     \/ /\ ctl.levelNum >= 2
        /\ game' \in PlaceSecretRoom(game, ctl.width, ctl.height)
  /\ ctl' = [ctl EXCEPT !.pc = "returned"]
  /\ UNCHANGED turns

\* DungeonGenerator.findFloorInRoom on the generator's grid
FloorInRoom(map, r) ==
  LET OrCorner(fl) == IF fl = {} THEN {<<r.x, r.y>>} ELSE fl
  IN OrCorner({<<x, y>> : x \in r.x .. r.x + r.w - 1, y \in r.y .. r.y + r.h - 1}
                \cap {c \in DOMAIN map : map[c] = "Floor"})

\* generateLevel after generate: spawnPlayer in rooms[0], spawnStairs puts the
\* down stairs in rooms[rooms.length - 1] (every depth modelled is above the
\* last; generate always returns a room, its first attempt overlaps nothing)
SpawnStep ==
  /\ ctl.pc = "returned" /\ game.rooms # <<>>
  /\ \E ppos \in {Draw(FloorInRoom(game.map, game.rooms[1]), seed) : seed \in 0 .. MaxSeed} :
     \E spos \in FloorInRoom(game.map, game.rooms[Len(game.rooms)]) :
       game' = [game EXCEPT !.player = ppos, !.stairs = spos]
  /\ ctl' = [ctl EXCEPT !.pc = "spawned"]
  /\ UNCHANGED turns

NextGen ==
  \/ GenerateRoomsStep
  \/ ConnectRoomsStep
  \/ SecretRoomStep
  \/ SpawnStep

SpecGen == InitGen /\ [][NextGen]_vars

-----------------------------------------------------------------------------
(* Traps on their own.  The level is depth 2 as generateLevel leaves it for *)
(* each seed (two hidden traps, no monster at this size); the player has    *)
(* walked to any walkable tile that holds no trap and has the action ready. *)

\* generateLevel(2) for this seed, the turn loop run
TrapLevel(seed) ==
  LET Settled(g) == [g EXCEPT !.gens = 0, !.tick = 300]
  IN Settled(DrainAlone(GenerateLevelSeed([Blank("warrior") EXCEPT !.nextEntityId = 200],
                                          2, seed), 0))

TrapGames ==
  UNION {{PlacedAt(TrapLevel(seed), c, TrapLevel(seed).explored) :
            c \in {d \in Cells : TrapLevel(seed).map[d] \in {"Floor", "DoorOpen"}}} :
         seed \in 0 .. MaxSeed}

InitTraps ==
  /\ game \in TrapGames
  /\ ctl = Idle("constructor")
  /\ turns = 0

NextTraps ==
  \/ \E a \in DOMAIN MoveDir \cup {"search"} : SubmitAction(a)
  \/ LoopRun
  \/ LoopExit

SpecTraps == InitTraps /\ [][NextTraps]_vars

-----------------------------------------------------------------------------
(* A spell caster.  The level is depth 1 as the constructor leaves it for   *)
(* seed 0 and an istar (48 mana at level 1), who stands on the start tile   *)
(* facing north or east with the action ready.  The level is empty, or a    *)
(* scroll of summoning has been read: a kobold stands on the next tile to   *)
(* the east, or a kobold at the far end of the room and a floating eye in   *)
(* the other room, or a warg with one hit point left stands next to a       *)
(* kobold within the radius of a fireball.                                  *)

\* the monsters on the level, with the energy they have gathered
SpellFoes ==
  { <<>>,
    << [SummonedMonster(311, "kobold", 2, 1) EXCEPT !.energy = 50] >>,
    << [SummonedMonster(311, "kobold", 1, 3) EXCEPT !.energy = 50],
       [SummonedMonster(312, "floatingEye", 5, 2) EXCEPT !.energy = 20] >>,
    << [SummonedMonster(311, "warg", 2, 2) EXCEPT !.hp = 1, !.energy = 10],
       [SummonedMonster(312, "kobold", 2, 3) EXCEPT !.energy = 50] >> }

\* the level with these monsters, the player facing rot
Casting(g, foes, rot) ==
  PlacedAt([g EXCEPT !.entities = foes, !.rot = rot, !.char.energy = ActionCost,
                     !.nextEntityId = 320, !.tick = 500],
           <<g.px, g.py>>, g.explored)

SpellGames ==
  {Casting(Fresh("istar", 0), foes, rot) : foes \in SpellFoes, rot \in {0, 90}}

InitSpells ==
  /\ game \in SpellGames
  /\ ctl = Idle("constructor")
  /\ turns = 0

NextSpells ==
  \/ \E a \in DOMAIN CastKey \cup DOMAIN MoveDir \cup {"wait"} : SubmitAction(a)
  \/ LoopRun
  \/ LoopExit

SpecSpells == InitSpells /\ [][NextSpells]_vars

\* Depth 3 reached without a fight: a level-1 istar next to the Orc King, who
\* has one hit point left, and the games of SpellGames with a wounded warg
KillGames ==
  LET deep == [DrainAlone(GenerateLevelSeed(Blank("istar"), 3, 0), 0) EXCEPT !.gens = 0]
      spot == Draw({c \in RoomCells(Rooms[1]) :
                      deep.map[c] = "Floor" /\ IsWalkable(deep.map, c[1] + 1, c[2])}, 0)
      king == [SpawnedBoss(311, "orc_king", spot[1] + 1, spot[2]) EXCEPT !.hp = 1, !.energy = 20]
  IN {PlacedAt([deep EXCEPT !.entities = <<king>>, !.items = <<>>, !.rot = rot,
                            !.char.energy = ActionCost, !.nextEntityId = 320,
                            !.tick = 2000],
               spot, deep.explored) : rot \in {0, 90}}
     \cup {g \in SpellGames : \E i \in 1 .. Len(g.entities) : g.entities[i].hp = 1}

InitKill ==
  /\ game \in KillGames
  /\ ctl = Idle("constructor")
  /\ turns = 0

SpecKill == InitKill /\ [][NextSpells]_vars

-----------------------------------------------------------------------------
(* processTurnLoop statement by statement.  queueAction has taken the cost  *)
(* of a wait or of a heal from a player with monsters on the level and has  *)
(* called processTurnLoop.  ctl is the position in the loop: pc is "top"    *)
(* at the test of the while loop, "monsters" inside the for-in loop, keys   *)
(* holds the ids the for-in loop has still to visit (the first is the one   *)
(* it is at), gained tells whether that monster has received its speed.     *)

\* the games in which the loop is followed
LoopGames ==
  {Danger} \cup {g \in SpellGames : g.entities # <<>>}

\* the game as queueAction hands it to processTurnLoop
LoopEntries ==
  UNION {{o.g : o \in {q \in QueueAction(NewCall(g), a) : q.start /\ q.frames = <<>>}}
         : g \in LoopGames, a \in {"wait", "cast_heal"}}

InitLoop ==
  /\ game \in LoopEntries
  /\ ctl = [pc |-> "top", safety |-> 0, keys |-> <<>>, gained |-> FALSE]
  /\ turns = 0

\* the test of the while loop holds: tick++, the player's energy grows
LoopTopCooling ==
  /\ ctl.pc = "top"
  /\ game.char.energy < ActionCost /\ ctl.safety < SafetyCap
  /\ game' = EndIteration([game EXCEPT !.tick = @ + 1, !.char.energy = @ + game.char.speed])
  /\ ctl' = [ctl EXCEPT !.pc = "monsters", !.keys = EntityKeys(game), !.gained = FALSE]
  /\ UNCHANGED turns

\* the test of the while loop holds: tick++, the player's energy grows
LoopTop ==
  /\ ctl.pc = "top"
  /\ game.char.energy < ActionCost /\ ctl.safety < SafetyCap
  /\ game' = [game EXCEPT !.tick = @ + 1, !.char.energy = @ + game.char.speed]
  /\ ctl' = [ctl EXCEPT !.pc = "monsters", !.keys = EntityKeys(game), !.gained = FALSE]
  /\ UNCHANGED turns

\* the for-in loop comes to a monster: m.energy += m.speed
MonsterGain ==
  /\ ctl.pc = "monsters" /\ ctl.keys # <<>> /\ ~ctl.gained
  /\ \E i \in {IdxOf(game, Head(ctl.keys))} :
       game' = [game EXCEPT !.entities[i].energy = @ + game.entities[i].speed]
  /\ ctl' = [ctl EXCEPT !.gained = TRUE]
  /\ UNCHANGED turns

\* one pass of the inner while loop: _processMonsterAI(m), m.energy -= 100,
\* return if the game is over
MonsterAct ==
  /\ ctl.pc = "monsters" /\ ctl.keys # <<>> /\ ctl.gained
  /\ \E i \in {IdxOf(game, Head(ctl.keys))} :
       /\ game.entities[i].energy >= ActionCost
       /\ \E h \in ProcessMonsterAI(game, i) :
            /\ game' = [h EXCEPT !.entities[i].energy = @ - ActionCost]
            /\ ctl' = IF h.status # "playing" THEN [ctl EXCEPT !.pc = "returned"] ELSE ctl
  /\ UNCHANGED turns

\* the inner while loop ends: the for-in loop goes to the next id
MonsterNext ==
  /\ ctl.pc = "monsters" /\ ctl.keys # <<>> /\ ctl.gained
  /\ game.entities[IdxOf(game, Head(ctl.keys))].energy < ActionCost
  /\ ctl' = [ctl EXCEPT !.keys = Tail(@), !.gained = FALSE]
  /\ UNCHANGED <<game, turns>>

\* the for-in loop is over: the cooldowns tick, safety++
LoopCooldowns ==
  /\ ctl.pc = "monsters" /\ ctl.keys = <<>>
  /\ game' = EndIteration(game)
  /\ ctl' = [ctl EXCEPT !.pc = "top", !.safety = @ + 1]
  /\ UNCHANGED turns

\* the test of the while loop fails: updateVisibility, the continuations
LoopDone ==
  /\ ctl.pc = "top"
  /\ ~(game.char.energy < ActionCost /\ ctl.safety < SafetyCap)
  /\ \E g1 \in {UpdateVisibility(game)} :
       game' = [g1 EXCEPT !.timers = @ \o (IF g1.autoRun.active THEN <<"auto">> ELSE <<>>)
                                       \o (IF g1.autoPath # <<>> THEN <<"path">> ELSE <<>>)]
  /\ ctl' = [ctl EXCEPT !.pc = "returned"]
  /\ UNCHANGED turns

NextLoop ==
  \/ LoopTop
  \/ MonsterGain
  \/ MonsterAct
  \/ MonsterNext
  \/ LoopCooldowns
  \/ LoopDone

SpecLoop == InitLoop /\ [][NextLoop]_vars

-----------------------------------------------------------------------------
(* Properties.  The game record carries the field logged for the messages  *)
(* of the current call; it is no part of the program's state and is left   *)
(* out wherever two games are compared.                                    *)

SameGame(g, h) == [g EXCEPT !.logged = {}] = [h EXCEPT !.logged = {}]

\* C1: queueAction called while the player's energy is below 100 is dropped
\* and changes nothing: player, monsters, grid, items, tick, and the auto-run
\* and path-walk flags are after the call what they were before it.
C1_DroppedActionChangesNothing ==
  (ctl.pc = "idle" /\ game.char.energy < ActionCost) =>
    \A a \in UserActions :
      \A o \in QueueAction(game, a) : ~o.start /\ SameGame(o.g, game)

\* the case of C1: no call runs, the status is playing, the player's energy is
\* below 100 and a path-walk is pending
C1_DroppedWhileWalking ==
  /\ ctl.pc = "idle" /\ game.status = "playing"
  /\ game.char.energy < ActionCost
  /\ game.autoPath # <<>>


\* C2: every accepted queueAction call of the user interface, for every action
\* tag, auto_explore included, subtracts exactly 100 from the player's energy
\* once and runs the drain loop exactly once.
C2_OneTurnPerAcceptedAction ==
  (ctl.pc = "idle" /\ ctl.op = "submitAction") => (ctl.subs = 1 /\ ctl.loops = 1)

\* the case of C2: a queueAction call of the user interface has returned after
\* two drain loops
C2_TwoLoopsInOneCall ==
  /\ ctl.pc = "idle" /\ ctl.op = "submitAction" /\ ctl.loops = 2 /\ ctl.subs = 2
  /\ game.status = "playing" /\ game.lastOver = "none"

\* C3: when the player's hp drops to 0 or below the status is dead, and when
\* the boss of the maximum depth is killed the status is won, from then on for
\* ever.
C3_DeadAndWonAreTerminal ==
  /\ game.lastOver = "dead" => game.status = "dead"
  /\ game.lastOver = "won" => game.status = "won"

\* the case of C3: Morgoth has been killed on the last level
C3_BossKilled ==
  game.lastOver = "won" /\ game.currentLevel = MaxLevel /\ game.entities = <<>>

\* C4: from the moment the player dies or wins, the tick counter, every
\* monster's position, energy and hp and the player's hp never change again.
C4_NothingRunsAfterGameOver ==
  [][game.lastOver # "none" =>
       /\ game'.tick = game.tick
       /\ game'.entities = game.entities
       /\ game'.char.hp = game.char.hp]_vars

\* the case of C4: the game is over and the drain loop is running
C4_LoopAfterGameOver ==
  game.lastOver # "none" /\ ctl.pc = "iter" /\ game.char.energy < ActionCost

\* C5: whenever the drain loop ends while the status is playing, the player's
\* energy is at least 100, the safety cap and repeated paralysis included.
C5_LoopEndsWithActionReady ==
  (ctl.ended = "completed" /\ game.status = "playing") => ctl.endEnergy >= ActionCost

\* the case of C5: the drain loop has run its thousand rounds under paralysis
C5_CapReached ==
  ctl.pc = "iter" /\ ctl.safety = SafetyCap /\ game.status = "playing"


VisibilityComputed ==
  \/ ctl.pc = "iter" /\ ~(game.char.energy < ActionCost /\ ctl.safety < SafetyCap)
  \/ game'.gens # game.gens

\* C7: while the player stays on a level no operation clears an explored bit;
\* every visibility computation rebuilds visible from scratch, as the tiles
\* lit from the player's tile; every visible tile is explored.
C7_ExploredMonotonic ==
  [][/\ game'.gens = game.gens => game.explored \subseteq game'.explored
     /\ VisibilityComputed => game'.visibility = LitCells(game'.map, game'.px, game'.py)
     /\ game'.visibility \subseteq game'.explored]_vars

\* the case of C7: on the level of the start the player has walked and the
\* visibility has been rebuilt; a tile seen before is out of sight now
C7_OutOfSightButExplored ==
  /\ ctl.pc = "idle" /\ ctl.ended = "completed" /\ game.gens = 0
  /\ game.status = "playing"
  /\ game.visibility # {}
  /\ \E c \in game.explored : c \notin game.visibility
  /\ game.explored # Cells


\* C8: whenever a public operation has returned and the status is playing, the
\* player's tile is visible and explored.
C8_PlayerTileSeen ==
  (ctl.pc = "idle" /\ game.status = "playing") =>
    /\ <<game.px, game.py>> \in game.visibility
    /\ <<game.px, game.py>> \in game.explored

\* the case of C8: a scroll of teleportation has been read, no drain loop has
\* run since, and the player stands on a tile that is not in sight
C8_TeleportedOutOfSight ==
  /\ ctl.pc = "idle" /\ game.status = "playing"
  /\ \E i \in 1 .. Len(Danger.char.inventory) :
       /\ Danger.char.inventory[i].effect = "teleport"
       /\ \A j \in 1 .. Len(game.char.inventory) :
            game.char.inventory[j].id # Danger.char.inventory[i].id
  /\ <<game.px, game.py>> \notin game.visibility


Adjacent8(c, d) == c # d /\ Abs(c[1] - d[1]) <= 1 /\ Abs(c[2] - d[2]) <= 1

PassableTiles == {"Floor", "DoorOpen", "DoorClosed", "TrapHidden", "TrapRevealed", "Portal"}

RECURSIVE Flood(_, _)
\* the tiles R and every passable tile joined to R by 8-directional steps over
\* passable tiles
Flood(map, R) ==
  LET Grow(N) == IF N \subseteq R THEN R ELSE Flood(map, R \cup N)
  IN Grow({n \in Cells : map[n] \in PassableTiles /\ \E c \in R : Adjacent8(c, n)})

\* t can be reached from s: by steps over passable tiles, t itself being any tile
CanReach(map, s, t) == \E c \in Flood(map, {s}) : Adjacent8(c, t)

\* C9: for a destination other than the source, _bfsPath returns a list
\* exactly when the destination can be reached from the source by
\* 8-directional steps over passable tiles; the list starts next to the
\* source, its consecutive waypoints are 8-adjacent, all but the last are
\* passable and the last is the destination.
C9_BfsPathCorrect ==
  (ctl.pc = "returned" /\ ctl.tgt # <<game.px, game.py>>) =>
    /\ ctl.res.found <=> CanReach(game.map, <<game.px, game.py>>, ctl.tgt)
    /\ ctl.res.found =>
         /\ ctl.res.path # <<>>
         /\ Adjacent8(<<game.px, game.py>>, ctl.res.path[1])
         /\ \A i \in 1 .. Len(ctl.res.path) - 1 :
              /\ Adjacent8(ctl.res.path[i], ctl.res.path[i + 1])
              /\ game.map[ctl.res.path[i]] \in PassableTiles
         /\ ctl.res.path[Len(ctl.res.path)] = ctl.tgt

\* the case of C9: a path of five waypoints or more that goes through the
\* open door of the corridor and ends on a wall
C9_LongPathToWall ==
  /\ ctl.pc = "returned" /\ ctl.res.found
  /\ Len(ctl.res.path) >= 5
  /\ game.map[ctl.tgt] = "Wall"
  /\ \E i \in 1 .. Len(ctl.res.path) : game.map[ctl.res.path[i]] = "DoorOpen"


RECURSIVE NearestUnexplored(_, _, _, _)
\* the unexplored tiles nearest to the tiles of layer, in 8-directional steps
\* through explored passable tiles; seen holds the tiles of the layers so far
NearestUnexplored(map, explored, seen, layer) ==
  LET Layer(N) ==
        IF N = {} THEN {}
        ELSE IF N \ explored # {} THEN N \ explored
        ELSE NearestUnexplored(map, explored, seen \cup N,
                               {n \in N : map[n] \in PassableTiles})
  IN Layer({n \in Cells \ seen : \E c \in layer : Adjacent8(c, n)})

\* C10: in a game in play, autoExplore walks towards an unexplored tile
\* nearest to the player, in breadth-first steps through explored walkable or
\* door tiles; when there is none (explored entirely set is such a case) it
\* logs that the dungeon is explored, leaves path-walk empty, starts no turn,
\* and changes nothing else, the player's position and energy included.
C10_AutoExploreTarget ==
  (ctl.pc = "idle" /\ game.status = "playing") =>
    LET Holds(t, F, g) ==
          /\ t = NoCell <=> F = {}
          /\ game.explored = Cells => F = {}
          /\ t # NoCell => t \in F
          /\ \A o \in AutoExplore(g) :
               IF F = {}
                 THEN /\ ~o.start
                      /\ o.g = [g EXCEPT !.logged = {"fullyExplored"}, !.autoPath = <<>>]
                 ELSE LET p == BfsPath(g.map, g.px, g.py, t[1], t[2]).path IN
                      /\ o.g.logged \cap {"fullyExplored", "noPath"} = {}
                      /\ p # <<>> /\ p[Len(p)] = t
                      /\ o.g.pathStepDir = <<p[1][1] - g.px, p[1][2] - g.py>>
                      /\ o.g.autoPath \in {<<>>, Tail(p)}
    IN Holds(FindNearestUnexplored(game.map, game.explored, game.px, game.py),
             NearestUnexplored(game.map, game.explored, {<<game.px, game.py>>},
                               {<<game.px, game.py>>}),
             NewCall(game))

\* the case of C10: autoExplore() was called with explored entirely set, in a
\* game whose path-walk was empty, and only logged
C10_FullyExploredReported ==
  /\ ctl = Idle("constructor") /\ game.status = "playing"
  /\ game.explored = Cells
  /\ game.logged = {"fullyExplored"}
  /\ game.autoPath = <<>> /\ game.timers = <<>>
  /\ \E g \in ExploreGames : SameGame(g, game)

\* the other case of C10: a walk started by autoExplore() is under way
C10_WalkingToTarget ==
  /\ ctl.pc = "idle" /\ ctl.op = "autoExplore" /\ game.status = "playing"
  /\ game.autoPath # <<>>
  /\ game.autoPath[Len(game.autoPath)] \notin game.explored


\* a pending timer callback fires in this step
TimerFires ==
  ctl.pc = "idle" /\ game.timers # <<>> /\ game'.timers = Tail(game.timers)

StepPending ==
  /\ ctl.pc = "idle" /\ game.status = "playing" /\ game.timers # <<>>
  /\ IF Head(game.timers) = "auto" THEN game.autoRun.active ELSE game.autoPath # <<>>

\* the tile the pending step goes to
StepTile ==
  IF Head(game.timers) = "auto"
    THEN <<game.px + game.autoRun.dx, game.py + game.autoRun.dy>>
    ELSE game.autoPath[1]

\* what stops an automatic step to tile n: a monster in view, an item under
\* the player or on n, a door on n, an intersection, stairs on n
Notable(g, n) ==
  \/ \E i \in 1 .. Len(g.entities) : <<g.entities[i].x, g.entities[i].y>> \in g.visibility
  \/ \E i \in 1 .. Len(g.items) :
       <<g.items[i].x, g.items[i].y>> \in {<<g.px, g.py>>, n}
  \/ n \in Cells /\ g.map[n] \in {"DoorClosed", "DoorOpen"}
  \/ Cardinality({d \in Range(Dirs4) :
                    /\ <<g.px + d[1], g.py + d[2]>> \in Cells
                    /\ g.map[<<g.px + d[1], g.py + d[2]>>] \in
                         PassableTiles \ {"DoorClosed"}}) > 2
  \/ n \in {g.stairs, g.stairsUp}

\* C12: when the callback of an auto-run or of a path-walk fires while
\* something notable is present, the player stays where they are and the
\* movement is cancelled.
C12_NotableStopsAutomaticStep ==
  [][(StepPending /\ TimerFires /\ Notable(game, StepTile)) =>
       /\ game'.px = game.px /\ game'.py = game.py
       /\ ~game'.autoRun.active
       /\ game'.autoPath = <<>>]_vars

\* the case of C12: a path-walk callback is pending with a monster in view
\* and the action ready
C12_PathStepWithMonsterInView ==
  /\ StepPending /\ Head(game.timers) = "path"
  /\ game.char.energy >= ActionCost
  /\ \E i \in 1 .. Len(game.entities) :
       <<game.entities[i].x, game.entities[i].y>> \in game.visibility


\* the monster with this id in game g, for an id that is there
MonsterOf(g, id) == g.entities[IdxOf(g, id)]

MonsterIds(g) == {g.entities[i].id : i \in 1 .. Len(g.entities)}

\* the monster sees the player and is within the chase radius
SeesPlayer(g, m) ==
  /\ <<m.x, m.y>> \in g.visibility
  /\ Abs(g.px - m.x) + Abs(g.py - m.y) <= 6

\* C13: a monster that is in wander before a step is in chase after it only
\* if the step ran its AI while it saw the player within Manhattan distance
\* 6; and a wander monster whose AI ran is in chase afterwards when it saw
\* the player so, and in wander when it did not.
C13_WanderToChase ==
  [][\A id \in MonsterIds(game) \cap MonsterIds(game') :
       MonsterOf(game, id).ai = "wander" =>
         /\ MonsterOf(game', id).ai = "chase" =>
              /\ ctl.pc = "iter" /\ id \in {f.id : f \in ctl'.fired}
              /\ SeesPlayer(game, MonsterOf(game, id))
         /\ (ctl.pc = "iter" /\ id \in {f.id : f \in ctl'.fired}
             /\ SeesPlayer(game, MonsterOf(game, id))) =>
              MonsterOf(game', id).ai = "chase"]_vars

\* the case of C13: no trap has been sprung, and a monster spawned in wander
\* has taken an AI step and is in chase
C13_WokenBySight ==
  /\ ctl.pc = "iter" /\ game.trapEvents = 0
  /\ \E i \in 1 .. Len(game.entities) :
       /\ MonsterTypes[game.entities[i].kind].ai = "wander"
       /\ game.entities[i].ai = "chase"
       /\ game.entities[i].id \in {f.id : f \in ctl.fired}


\* C14: a monster that is in chase before a step and still there after it is
\* in chase after it.
C14_ChaseIsSticky ==
  [][\A id \in MonsterIds(game) \cap MonsterIds(game') :
       MonsterOf(game, id).ai = "chase" => MonsterOf(game', id).ai = "chase"]_vars

\* the case of C14: a monster in chase has taken an AI step that was not an
\* attack (it is not next to the player) in the second round or later of a
\* drain loop
C14_ChasingOn ==
  /\ ctl.pc = "iter" /\ ctl.safety >= 2
  /\ \E i \in 1 .. Len(game.entities) :
       /\ game.entities[i].ai = "chase"
       /\ game.entities[i].id \in {f.id : f \in ctl.fired}
       /\ Abs(game.px - game.entities[i].x) + Abs(game.py - game.entities[i].y) > 1

\* the items a game holds, place by place: the ground list, the inventory,
\* the equipment slots in use
HeldItems(g) ==
  g.items \o g.char.inventory
    \o SelectSeq(<<g.char.equipment.weapon, g.char.equipment.armor, g.char.equipment.ring>>,
                 LAMBDA it : it # NoItem)

\* C15: in every reachable state no item is held twice, in two of the ground
\* list, the inventory and the equipment slots or twice in one of them, and
\* a use of a potion or of a scroll of the inventory leaves that item in none
\* of them.
C15_ItemInOnePlace ==
  /\ \A i, j \in 1 .. Len(HeldItems(game)) :
       HeldItems(game)[i].id = HeldItems(game)[j].id => i = j
  /\ \A idx \in 1 .. Len(game.char.inventory) :
       game.char.inventory[idx].category \in {"potion", "scroll"} =>
         \A h \in UseInventoryItem(NewCall(game), idx) :
           \A k \in 1 .. Len(HeldItems(h)) :
             HeldItems(h)[k].id # game.char.inventory[idx].id

\* the dagger of the pack has been swapped with the one in hand, and the
\* armour has been put on
C15_SwappedAndEquipped ==
  /\ ctl.pc = "idle"
  /\ game.char.equipment.weapon # NoItem /\ game.char.equipment.weapon.id = 301
  /\ game.char.equipment.armor # NoItem /\ game.char.equipment.armor.id = 302
  /\ \E i \in 1 .. Len(game.char.inventory) : game.char.inventory[i].id = 310

\* the inventory indices of g that hold a scroll of identify
IdentifyScrolls(g) ==
  {idx \in 1 .. Len(g.char.inventory) :
     g.char.inventory[idx].category = "scroll" /\ g.char.inventory[idx].effect = "identify"}

\* the item of this id in a list is a potion named by its type
NamedIn(items, id) ==
  \E i \in 1 .. Len(items) :
    items[i].id = id /\ items[i].identified /\ items[i].name = "true"

\* C16: in every reachable state, a use of a scroll of identify of the
\* inventory leaves every potion that was unidentified in the inventory, and
\* every one that was unidentified on a visible tile of the ground,
\* identified under its true name, with its type in the identified set.
C16_IdentifyNamesEveryPotion ==
  \A idx \in IdentifyScrolls(game) :
    \A h \in UseInventoryItem(NewCall(game), idx) :
      /\ \A i \in 1 .. Len(game.char.inventory) :
           (game.char.inventory[i].category = "potion" /\ ~game.char.inventory[i].identified) =>
             /\ NamedIn(h.char.inventory, game.char.inventory[i].id)
             /\ game.char.inventory[i].key \in h.identifiedPotions
      /\ \A i \in 1 .. Len(game.items) :
           (/\ game.items[i].category = "potion" /\ ~game.items[i].identified
            /\ <<game.items[i].x, game.items[i].y>> \in game.visibility) =>
             /\ NamedIn(h.items, game.items[i].id)
             /\ game.items[i].key \in h.identifiedPotions

\* one scroll of identify has been read with three unknown potions of
\* healing in the pack: all three are named
C16_ThreePotionsNamed ==
  /\ ctl.pc = "idle" /\ turns = 1
  /\ Len(game.char.inventory) = 4
  /\ game.char.inventory[1].category = "scroll"
  /\ \A i \in 2 .. 4 : /\ game.char.inventory[i].key = "healPotion"
                       /\ game.char.inventory[i].identified
                       /\ game.char.inventory[i].name = "true"
  /\ "healPotion" \in game.identifiedPotions

\* C17: in every reachable state, of two uses of a scroll of identify in a
\* row the second changes neither the identified set nor any item on the
\* ground, and in the inventory nothing but the scroll it consumes.
C17_SecondIdentifyChangesNothing ==
  \A idx \in IdentifyScrolls(game) :
    \A h \in UseInventoryItem(NewCall(game), idx) :
      \A idx2 \in IdentifyScrolls(h) :
        \A h2 \in UseInventoryItem(NewCall(h), idx2) :
          /\ h2.identifiedPotions = h.identifiedPotions
          /\ h2.items = h.items
          /\ h2.char.inventory = RemoveAt(h.char.inventory, idx2)

\* both scrolls of identify of the pack have been read, one after the other
C17_BothScrollsRead ==
  /\ ctl.pc = "idle" /\ turns = 2
  /\ Len(game.char.inventory) = 3
  /\ \A i \in 1 .. 3 : /\ game.char.inventory[i].id \in {303, 304, 305}
                       /\ game.char.inventory[i].identified
  /\ \A i \in 1 .. Len(game.items) : game.items[i].id \notin {301, 302}

\* C18: in every reachable state, every potion of the inventory and of the
\* ground is flagged identified and shows its true name if and only if its
\* type is in the identified set, and the identified set never loses a type.
C18_NameFollowsIdentifiedSet ==
  [][/\ \A i \in 1 .. Len(HeldItems(game')) :
          HeldItems(game')[i].category = "potion" =>
            ((HeldItems(game')[i].identified /\ HeldItems(game')[i].name = "true")
               <=> HeldItems(game')[i].key \in game'.identifiedPotions)
     /\ game.identifiedPotions \subseteq game'.identifiedPotions]_vars

\* one of two unknown potions of the same type has been drunk, the other is
\* still in the pack
C18_OneOfTwoDrunk ==
  /\ ctl.pc = "idle" /\ turns = 1
  /\ "poisonPotion" \in game.identifiedPotions
  /\ \E i \in 1 .. Len(game.char.inventory) :
       game.char.inventory[i].key = "poisonPotion" /\ game.char.inventory[i].category = "potion"

\* the room lies entirely inside a grid of this size
RoomInside(r, width, height) ==
  /\ r.x >= 0 /\ r.y >= 0 /\ r.w >= 1 /\ r.h >= 1
  /\ r.x + r.w <= width /\ r.y + r.h <= height

\* the rooms are apart by a tile or more: neither overlaps the other grown
\* by one tile on every side
RoomsApart(r, q) ==
  \/ r.x + r.w + 1 <= q.x \/ q.x + q.w + 1 <= r.x
  \/ r.y + r.h + 1 <= q.y \/ q.y + q.h + 1 <= r.y

\* C19: when generate returns, the grid has the requested height and width,
\* every room of the returned list, a secret room included, lies inside the
\* grid, and any two rooms of the list are a tile or more apart.
C19_RoomsInsideAndApart ==
  ctl.pc = "returned" =>
    /\ DOMAIN game.map = (0 .. ctl.width - 1) \X (0 .. ctl.height - 1)
    /\ \A i \in 1 .. Len(game.rooms) : RoomInside(game.rooms[i], ctl.width, ctl.height)
    /\ \A i, j \in 1 .. Len(game.rooms) :
         i # j => RoomsApart(game.rooms[i], game.rooms[j])

\* generate has returned two rooms and a secret room on the 15 x 9 grid
C19_SecretRoomReturned ==
  /\ ctl.pc = "returned" /\ ctl.width = 15
  /\ Len(game.rooms) = 3 /\ game.rooms[3].secret

\* the tile of a trap is the one its revealed flag calls for
TrapTileMatches(g, t) ==
  g.map[<<t.x, t.y>>] = IF t.revealed THEN "TrapRevealed" ELSE "TrapHidden"

\* C20: in every reachable state the tile of each trap of the level is
\* TrapHidden while the trap is not revealed and TrapRevealed once it is;
\* on a level, a revealed trap stays revealed, and every trap_triggered
\* broadcast of a step is for a trap that was not revealed before the step
\* and is revealed after it, so that no trap is triggered twice.
C20_TrapRevealedOnce ==
  [][/\ \A i \in 1 .. Len(game'.traps) : TrapTileMatches(game', game'.traps[i])
     /\ (game'.gens = game.gens /\ game'.currentLevel = game.currentLevel) =>
          /\ Len(game'.traps) = Len(game.traps)
          /\ \A i \in 1 .. Len(game.traps) :
               /\ game'.traps[i].x = game.traps[i].x /\ game'.traps[i].y = game.traps[i].y
               /\ game.traps[i].revealed => game'.traps[i].revealed
          /\ game'.trapEvents - game.trapEvents
               <= Cardinality({i \in 1 .. Len(game.traps) :
                                 ~game.traps[i].revealed /\ game'.traps[i].revealed})]_vars

\* the player has found a trap by searching and then stepped onto it, and no
\* trap has been triggered
C20_OnRevealedTrap ==
  /\ ctl.pc = "idle" /\ game.status = "playing" /\ game.trapEvents = 0
  /\ \E i \in 1 .. Len(game.traps) :
       /\ game.traps[i].revealed
       /\ game.traps[i].x = game.px /\ game.traps[i].y = game.py

\* the messages of the non-fatal failures
NonFatal == {"nothingToPickUp", "noStairs", "notEnoughMana", "noPath"}

\* what a non-fatal failure is to leave alone
Untouched(g, h) ==
  /\ h.px = g.px /\ h.py = g.py /\ h.tick = g.tick
  /\ h.char.hp = g.char.hp /\ h.char.mp = g.char.mp /\ h.char.energy = g.char.energy
  /\ h.char.inventory = g.char.inventory
  /\ h.currentLevel = g.currentLevel /\ h.map = g.map
  /\ h.entities = g.entities

\* C21: in a game in play, a call of submitAction or of startPathTo that logs
\* "nothing to pick up", "no stairs here", "not enough mana" or the failure
\* of the path search returns without a turn loop and leaves position, hp,
\* mp, energy, inventory, depth, grid, tick and the monsters as they were.
C21_FailureOnlyLogs ==
  (ctl.pc = "idle" /\ game.status = "playing") =>
    /\ \A a \in UserActions : \A o \in QueueAction(NewCall(game), a) :
         o.g.logged \cap NonFatal # {} => (~o.start /\ Untouched(game, o.g))
    /\ \A t \in PathTargets : \A o \in StartPathTo(NewCall(game), t[1], t[2]) :
         o.g.logged \cap NonFatal # {} => (~o.start /\ Untouched(game, o.g))

\* a call of submitAction has logged a non-fatal failure and its turn loop
\* is over
C21_FailedActionSettled ==
  /\ ctl.pc = "idle" /\ ctl.op = "submitAction" /\ game.status = "playing"
  /\ game.logged \cap NonFatal # {}

\* the spells that are aimed at monsters
TargetedSpells == {"fireball", "lightning", "frostNova"}

\* C22: in every reachable state, a cast of fireball, lightning bolt or frost
\* nova that hits no monster (the monsters are after it what they were
\* before) leaves the player's mana and the cooldown of the spell at the
\* values they had before the cast.
C22_MissedSpellRefunded ==
  \A key \in TargetedSpells : \A h \in CastSpell(NewCall(game), key) :
    h.entities = game.entities =>
      /\ h.char.mp = game.char.mp
      /\ h.char.spellCooldowns[key] = game.char.spellCooldowns[key]

\* a lightning bolt or a frost nova has been cast by submitAction and has
\* hit nothing: the cooldown runs and no monster has been killed
C22_BoltIntoTheVoid ==
  /\ ctl.op = "submitAction" /\ ctl.pc = "iter" /\ ctl.safety = 0
  /\ \E key \in {"lightning", "frostNova"} :
       game.char.spellCooldowns[key] = Spells[key].cooldown
  /\ game.entities = <<>>

\* entity i is before and after the step what it was, its energy apart
SameButEnergy(g, h, i) == [h.entities[i] EXCEPT !.energy = 0] = [g.entities[i] EXCEPT !.energy = 0]

\* C23: in the drain loop, a step that raises the tick raises it by one and
\* gives the player their speed, before any monster or cooldown changes; the
\* for-in loop then visits the monsters in the order of the entity table; a
\* monster's energy changes only while the loop is at that monster, first by
\* its speed and then by -100 per AI step, and the loop leaves the monster
\* only when its energy is below 100; the cooldowns are decremented only when
\* every monster has been visited.
C23_IterationOrder ==
  [][/\ game'.tick # game.tick =>
          /\ ctl.pc = "top" /\ game'.tick = game.tick + 1
          /\ game'.char.energy = game.char.energy + game.char.speed
          /\ game'.entities = game.entities
          /\ game'.char.spellCooldowns = game.char.spellCooldowns
          /\ ctl'.keys = [i \in 1 .. Len(game.entities) |-> game.entities[i].id]
     /\ (Len(game'.entities) = Len(game.entities)) =>
          \A i \in 1 .. Len(game.entities) :
            game'.entities[i] # game.entities[i] =>
              /\ ctl.pc = "monsters" /\ ctl.keys # <<>>
              /\ game.entities[i].id = Head(ctl.keys)
              /\ \A j \in 1 .. Len(game.entities) : j # i => game'.entities[j] = game.entities[j]
              /\ IF ctl.gained
                   THEN /\ game.entities[i].energy >= ActionCost
                        /\ game'.entities[i].energy = game.entities[i].energy - ActionCost
                   ELSE /\ game'.entities[i].energy
                             = game.entities[i].energy + game.entities[i].speed
                        /\ SameButEnergy(game, game', i)
                        /\ ctl'.gained
     /\ (ctl.pc = "monsters" /\ ctl'.pc = "monsters" /\ ctl'.keys # ctl.keys) =>
          /\ ctl.gained /\ ctl'.keys = Tail(ctl.keys)
          /\ game.entities[IdxOf(game, Head(ctl.keys))].energy < ActionCost
     /\ game'.char.spellCooldowns # game.char.spellCooldowns =>
          /\ ctl.pc = "monsters" /\ ctl.keys = <<>> /\ ctl'.pc = "top"
          /\ game' = EndIteration(game)]_vars

\* the loop is at the second of two monsters, which has received its speed
\* and has an AI step to take, after the first has taken one in an earlier
\* pass
C23_SecondMonsterToAct ==
  /\ ctl.pc = "monsters" /\ Len(ctl.keys) = 1 /\ Len(game.entities) = 2
  /\ ctl.gained /\ ctl.safety >= 1
  /\ game.entities[2].energy >= ActionCost
  /\ game.entities[1].energy < game.entities[1].speed


\* the monster whose AI step the drain loop is about to run, 0 when none is
ActingMonster ==
  IF ctl.pc = "monsters" /\ ctl.keys # <<>> /\ ctl.gained
     /\ game.entities[IdxOf(game, Head(ctl.keys))].energy >= ActionCost
    THEN IdxOf(game, Head(ctl.keys)) ELSE 0

\* the step the sentence of C24 allows monster i of g to end in g2
AxisStep(g, i, h) ==
  LET m == g.entities[i]
      dx == g.px - m.x
      dy == g.py - m.y
      xTile == <<m.x + Sign(dx), m.y>>
      yTile == <<m.x, m.y + Sign(dy)>>
      major == IF Abs(dx) >= Abs(dy) THEN xTile ELSE yTile
      minor == IF Abs(dx) >= Abs(dy) THEN yTile ELSE xTile
      at == <<h.entities[i].x, h.entities[i].y>>
  IN IF CanMonsterMove(g, major[1], major[2]) THEN at = major
     ELSE IF minor # <<m.x, m.y>> /\ CanMonsterMove(g, minor[1], minor[2]) THEN at = minor
     ELSE Manhattan(at[1], at[2], m.x, m.y) <= 1

\* C24: on its AI step a chasing monster within Manhattan distance 1 of the
\* player attacks and stays where it is; one farther away moves one tile
\* along the axis with the greater absolute delta, takes the other axis only
\* when that tile is blocked, and wanders only when both are blocked (the
\* monsters with a ranged ability, which may do something else, left aside)
C24_ChaseAlongGreaterAxis ==
  ActingMonster # 0 =>
    LET i == ActingMonster
        m == game.entities[i]
    IN (m.ai = "chase" /\ m.ability \notin {"teleport", "summon"}) =>
         \A h \in ProcessMonsterAI(game, i) :
           IF Manhattan(game.px, game.py, m.x, m.y) <= 1
             THEN h.entities[i].x = m.x /\ h.entities[i].y = m.y
             ELSE AxisStep(game, i, h)

\* a chasing monster off both of the player's axes is about to take its step
C24_ChaserOffAxis ==
  /\ ActingMonster # 0
  /\ game.entities[ActingMonster].ai = "chase"
  /\ game.entities[ActingMonster].ability \notin {"teleport", "summon"}
  /\ game.entities[ActingMonster].x # game.px
  /\ game.entities[ActingMonster].y # game.py
  /\ Manhattan(game.px, game.py, game.entities[ActingMonster].x,
               game.entities[ActingMonster].y) > 1

\* the first half of C24 alone: the adjacent chaser attacks and does not move
C24_AdjacentChaserStays ==
  ActingMonster # 0 =>
    LET i == ActingMonster
        m == game.entities[i]
    IN (m.ai = "chase" /\ Manhattan(game.px, game.py, m.x, m.y) <= 1) =>
         \A h \in ProcessMonsterAI(game, i) :
           h.entities[i].x = m.x /\ h.entities[i].y = m.y


RECURSIVE XpOfGone(_, _, _)
\* the XP of the monsters of ents, from index i on, whose id is not in keep
XpOfGone(ents, keep, i) ==
  IF i > Len(ents) THEN 0
  ELSE (IF ents[i].id \in keep THEN 0 ELSE ents[i].xp) + XpOfGone(ents, keep, i + 1)

\* C25: a monster whose hp reaches 0 or below is removed, the player gains
\* exactly its XP and the level-ups are applied until the XP is below the
\* next threshold or the level cap is reached; no monster with hp <= 0 is
\* left in the entity table (steps that replace the level left aside)
C25_KillPaysXpAndRemoves ==
  [][ /\ \A i \in 1 .. Len(game.entities) : game.entities[i].hp > 0
      /\ \A i \in 1 .. Len(game'.entities) : game'.entities[i].hp > 0
      /\ (game'.currentLevel = game.currentLevel /\ game'.gens = game.gens) =>
           LET keep == {game'.entities[i].id : i \in 1 .. Len(game'.entities)}
               gone == {i \in 1 .. Len(game.entities) : game.entities[i].id \notin keep}
           IN /\ game'.char.xp = game.char.xp + XpOfGone(game.entities, keep, 1)
              /\ game'.char.kills = game.char.kills + Cardinality(gone)
              /\ gone # {} => \/ game'.char.xp < game'.char.xpToNext
                              \/ game'.char.level = Len(XpTable) ]_vars

\* a kill has taken the player up a level
C25_KilledAndLevelled ==
  /\ game.char.kills = 1
  /\ game.char.level = 4
  /\ game.char.xp = 150
  /\ game.entities = <<>>


\* the tiles of room r of the generator
Footprint(r) ==
  {<<x, y>> : x \in r.x .. r.x + r.w - 1, y \in r.y .. r.y + r.h - 1}

\* the tiles outside room r that touch it, diagonals included
Around(r) ==
  {<<x, y>> : x \in r.x - 1 .. r.x + r.w, y \in r.y - 1 .. r.y + r.h} \ Footprint(r)

\* the secret room _placeSecretRoom has just attached, as the last room
SecretAttached ==
  /\ Len(game'.rooms) = Len(game.rooms) + 1
  /\ game'.rooms[Len(game'.rooms)].secret

\* C26: the footprint of an attached secret room was all Wall before the
\* carving, and in the returned grid no tile of the secret room touches
\* (8 directions) a walkable or door tile outside it: the SecretWall tile
\* is the only way in
C26_SecretRoomSealed ==
  [][ SecretAttached =>
        LET r == game'.rooms[Len(game'.rooms)]
        IN /\ \A c \in Footprint(r) : game.map[c] = "Wall"
           /\ \A c \in Around(r) : game'.map[c] \in {"Wall", "SecretWall"} ]_vars

\* the first half of C26 alone: the footprint was all Wall before the carving
C26_FootprintWasWall ==
  [][ SecretAttached =>
        \A c \in Footprint(game'.rooms[Len(game'.rooms)]) : game.map[c] = "Wall" ]_vars

\* generate has returned a grid with a secret room
C26_SecretRoomAttached ==
  /\ ctl.pc = "returned"
  /\ game.rooms # <<>>
  /\ game.rooms[Len(game.rooms)].secret
  /\ game.secretDoors # <<>>


\* C27: no two live actors stand on one tile: no two monsters share a tile
\* and no monster stands on the player's tile
C27_OneActorPerTile ==
  /\ \A i \in 1 .. Len(game.entities) :
       ~(game.entities[i].x = game.px /\ game.entities[i].y = game.py)
  /\ \A i \in 1 .. Len(game.entities) : \A j \in 1 .. Len(game.entities) :
       (i # j) => ~(game.entities[i].x = game.entities[j].x
                    /\ game.entities[i].y = game.entities[j].y)

\* the part of C27 that is about monster movement: a monster that takes its
\* AI step next to other actors ends on a tile no other actor stands on
C27_MovedMonsterAlone ==
  ActingMonster # 0 =>
    \A h \in ProcessMonsterAI(game, ActingMonster) :
      (h.px = game.px /\ h.py = game.py /\ Len(h.entities) = Len(game.entities)) =>
        LET m == h.entities[ActingMonster]
        IN /\ ~(m.x = h.px /\ m.y = h.py)
           /\ \A j \in 1 .. Len(h.entities) :
                j # ActingMonster => ~(h.entities[j].x = m.x /\ h.entities[j].y = m.y)

\* a level has been generated or the player teleported with monsters around
C27_ActorsPlaced ==
  /\ game.status = "playing"
  /\ game.entities # <<>>
  /\ game.gens >= 1


RECURSIVE GenFlood(_, _)
\* the tiles R of the generator's grid and every Floor tile joined to R by
\* 8-directional steps over Floor tiles (the doors, traps and portals of the
\* grid are Floor here); a SecretWall tile is not Floor
GenFlood(map, R) ==
  LET Grow(N) == IF N \subseteq R THEN R ELSE GenFlood(map, R \cup N)
  IN Grow({n \in DOMAIN map : map[n] = "Floor" /\ \E c \in R : Adjacent8(c, n)})

\* C28: on a generated level the down stairs can be reached from the
\* player's spawn tile by 8-directional steps over passable tiles without
\* crossing a SecretWall tile, and they are not inside a secret room (on the
\* 15 x 9 levels, whose rooms all lie inside the map)
C28_StairsReachable ==
  (ctl.pc = "spawned" /\ ctl.width = 15) =>
    /\ game.stairs \in GenFlood(game.map, {game.player})
    /\ \A i \in 1 .. Len(game.rooms) :
         game.rooms[i].secret => game.stairs \notin Footprint(game.rooms[i])

\* the same on the levels without a secret room
C28_StairsReachablePlain ==
  (ctl.pc = "spawned" /\ ctl.width = 15 /\ game.secretDoors = <<>>) =>
    game.stairs \in GenFlood(game.map, {game.player})

\* a level with three rooms has its player and its stairs
C28_Spawned ==
  /\ ctl.pc = "spawned"
  /\ Len(game.rooms) >= 3
  /\ game.stairs # game.player


\* C29: in one session game_over is broadcast at most once, and once it has
\* been broadcast the player's hp and the outcome it carried do not change
C29_GameOverOnce ==
  [][ /\ game'.gameOvers <= 1
      /\ game.gameOvers >= 1 =>
           /\ game'.char.hp = game.char.hp
           /\ game'.lastOver = game.lastOver ]_vars

\* game_over has been broadcast and the program has gone on
C29_GameOverBroadcast ==
  /\ game.gameOvers >= 1
  /\ game.lastOver \in {"dead", "won"}
  /\ ctl.pc = "idle"

\* the second half of C29 for the victory: a player who has won does not die
C29_WinnerDoesNotDie ==
  [][ game.lastOver = "won" => game'.lastOver = "won" ]_vars


\* the number of pending continuations of this kind
Pending(g, kind) == Cardinality({i \in 1 .. Len(g.timers) : g.timers[i] = kind})

\* C30: at most one deferred auto-run continuation and at most one deferred
\* path-walk continuation is pending at any time
C30_OneContinuationPerKind ==
  /\ Pending(game, "auto") <= 1
  /\ Pending(game, "path") <= 1

\* a continuation is pending while the program waits for the next call
C30_ContinuationPending ==
  /\ ctl.pc = "idle"
  /\ game.status = "playing"
  /\ game.timers # <<>>

=============================================================================
